---------------------------- MODULE Spec2Model ----------------------------
(***************************************************************************)
(* NewtonSolver<PhysicalModel> (NewtonSolver.hpp / NewtonSolver_impl.hpp)  *)
(* and ImpesTPFAAD::solve (ImpesTPFAAD.hpp) of opm-autodiff as state       *)
(* machines.                                                               *)
(*                                                                         *)
(* A double is modelled as an exact fraction [num, den] in lowest terms    *)
(* with den > 0.  The results of a division by zero are kept as den = 0:   *)
(* num = 1 is +inf, num = -1 is -inf, num = 0 is NaN, and comparisons      *)
(* treat them as IEEE 754 does.  Rounding is not modelled.                 *)
(***************************************************************************)
EXTENDS Integers, Sequences, FiniteSets, TLC

\* ------------------------------------------------------------------------
\* Bounds of the model.
\* ------------------------------------------------------------------------
\* max_iter_ ranges over -1 .. MaxIter
MaxIter == 2
\* min_iter_ ranges over 0 .. MinIter
MinIter == 2
\* number of calls of step() in one behaviour
MaxSteps == 2
\* max_iter_ of the runs that exercise the relaxation
RelaxIter == 4

\* ------------------------------------------------------------------------
\* double arithmetic
\* ------------------------------------------------------------------------
AbsInt(n) == IF n < 0 THEN -n ELSE n

SignInt(n) == IF n < 0 THEN -1 ELSE IF n > 0 THEN 1 ELSE 0

RECURSIVE GCD(_, _)
GCD(a, b) == IF b = 0 THEN a ELSE GCD(b, a % b)

\* the double n/d (d = 0: the IEEE result of dividing n by zero)
Rat(n, d) ==
    IF d = 0
    THEN [num |-> SignInt(n), den |-> 0]
    ELSE LET g == GCD(AbsInt(n), AbsInt(d))
             s == SignInt(d)
         IN  [num |-> (s * n) \div g, den |-> (s * d) \div g]

IsFinite(x) == x.den # 0
IsNaN(x) == x.den = 0 /\ x.num = 0

\* operands are finite wherever the driver adds, subtracts or multiplies
RatAdd(x, y) == Rat(x.num * y.den + y.num * x.den, x.den * y.den)
RatSub(x, y) == Rat(x.num * y.den - y.num * x.den, x.den * y.den)
RatMul(x, y) == Rat(x.num * y.num, x.den * y.den)
\* x / y for finite x and y; y = 0 gives +-inf, or NaN for 0/0
RatDiv(x, y) == Rat(x.num * y.den, x.den * y.num)
\* std::abs
RatAbs(x) == [num |-> AbsInt(x.num), den |-> x.den]

\* operator< on doubles: false when either side is NaN
RatLess(x, y) ==
    IF IsNaN(x) \/ IsNaN(y) THEN FALSE
    ELSE IF ~IsFinite(x) /\ ~IsFinite(y) THEN x.num < y.num
    ELSE IF ~IsFinite(x) THEN x.num < 0
    ELSE IF ~IsFinite(y) THEN y.num > 0
    ELSE x.num * y.den < y.num * x.den

\* std::max(a, b): (a < b) ? b : a
RatMax(a, b) == IF RatLess(a, b) THEN b ELSE a

One == Rat(1, 1)
Zero == Rat(0, 1)

\* ------------------------------------------------------------------------
\* State
\* ------------------------------------------------------------------------
VARIABLES
    \* NewtonSolver data members
    param_,                 \* SolverParameters
    model_,                 \* the PhysicalModel: what its methods may answer
    newtonIterations_,
    linearIterations_,
    newtonIterationsLast_,
    linearIterationsLast_,
    \* step(): position and locals
    pc,
    residual_norms_history,
    omega,
    iteration,
    converged,
    dx,
    dxOld,
    isOscillate,
    isStagnate,
    linearIterations,
    \* observation of one call of step()
    calls,                  \* the model's methods called so far, in order
                            \* (its const getters are not logged)
    convAnswers,            \* the answers of getConvergence so far
    linAnswers,             \* the answers of linearIterationsLastSolve so far
    entry,                  \* the four counters when step() was entered
    ret,                    \* what the last call of step() returned
    steps,                  \* calls of step() begun
    updAnswers,             \* the vectors solveJacobianSystem returned
    applied,                \* the vectors handed to updateState
    terminal,               \* what step() wrote to std::cout and std::cerr
    sumNewton,              \* Newton iterations of the successful steps
    sumLinear,              \* linear iterations of the successful steps
    \* ImpesTPFAAD and the states its solve() works on
    state_pressure,         \* BlackoilState::pressure(), one entry per cell
    state_saturation,       \* BlackoilState::saturation(), cells x phases
    state_surfacevol,       \* BlackoilState::surfacevol(), cells x phases
    well_bhp,               \* WellState::bhp(), one entry per well
    pdepfdata_,             \* the members of the PressureDependentFluidData
    cell_residual_,
    fluidCall,              \* the last call of fvf, phaseRelPerm, phaseViscosity
    linsolves,              \* the calls of linsolver_.solve so far
    impesRet,               \* how the last call of solve() ended
    wells_,                 \* the Wells structure of the ImpesTPFAAD
    well_to_perf,           \* assemble()'s matrix from wells to perforations
    p_perfwell,             \* assemble()'s well pressure of every perforation
    \* the construction of the SolverParameters
    param                   \* the ParameterGroup handed to the constructor

solverVars == <<param_, model_, newtonIterations_, linearIterations_,
                newtonIterationsLast_, linearIterationsLast_>>
localVars == <<pc, residual_norms_history, omega, iteration, converged, dx,
               dxOld, isOscillate, isStagnate, linearIterations>>
obsVars == <<calls, convAnswers, linAnswers, updAnswers, applied, terminal,
             entry, ret, steps, sumNewton, sumLinear>>
impesVars == <<state_pressure, state_saturation, state_surfacevol, well_bhp,
               pdepfdata_, cell_residual_, fluidCall, linsolves, impesRet>>
ctorVars == <<param>>
wellVars == <<wells_, well_to_perf, p_perfwell>>
otherVars == <<impesVars, ctorVars, wellVars>>
vars == <<solverVars, localVars, obsVars, otherVars>>

\* enum RelaxType { DAMPEN, SOR }
DAMPEN == "DAMPEN"
SOR == "SOR"

\* SolverParameters::reset(): the default values
DefaultParameters ==
    [relax_type_      |-> DAMPEN,
     relax_max_       |-> Rat(1, 2),
     relax_increment_ |-> Rat(1, 10),
     relax_rel_tol_   |-> Rat(1, 5),
     max_iter_        |-> 15,
     min_iter_        |-> 1]

relaxType == param_.relax_type_
relaxMax == param_.relax_max_
relaxIncrement == param_.relax_increment_
relaxRelTol == param_.relax_rel_tol_
maxIter == param_.max_iter_
minIter == param_.min_iter_

\* a parameter::ParameterGroup: the names it has a value for, and the values
NoGroup ==
    [has        |-> {},
     relax_max  |-> Zero,
     max_iter   |-> 0,
     min_iter   |-> 0,
     relax_type |-> ""]

\* param.getDefault(name, default_value)
getDefault(group, name, default_value) ==
    IF name \in group.has THEN group[name] ELSE default_value

\* a constructor that takes an unknown relaxation type for the default one
SolverParametersLenient(group) ==
    LET relaxation_type == getDefault(group, "relax_type", "dampen")
    IN  [thrown |-> FALSE,
         param  |-> [DefaultParameters EXCEPT
                        !.relax_max_ = getDefault(group, "relax_max", @),
                        !.max_iter_ = getDefault(group, "max_iter", @),
                        !.min_iter_ = getDefault(group, "min_iter", @),
                        !.relax_type_ = IF relaxation_type = "sor"
                                        THEN SOR ELSE DAMPEN]]

\* SolverParameters(const parameter::ParameterGroup& param): the parameters
\* it leaves, and whether it throws
SolverParameters(group) ==
    LET overloaded == [DefaultParameters EXCEPT
                          !.relax_max_ = getDefault(group, "relax_max", @),
                          !.max_iter_ = getDefault(group, "max_iter", @),
                          !.min_iter_ = getDefault(group, "min_iter", @)]
        relaxation_type == getDefault(group, "relax_type", "dampen")
    IN  CASE relaxation_type = "dampen" ->
               [thrown |-> FALSE,
                param  |-> [overloaded EXCEPT !.relax_type_ = DAMPEN]]
          [] relaxation_type = "sor" ->
               [thrown |-> FALSE,
                param  |-> [overloaded EXCEPT !.relax_type_ = SOR]]
          [] OTHER ->
               [thrown |-> TRUE, param |-> overloaded]

\* the value of a member the constructor leaves uninitialized
Indeterminate == {0, 7}

\* no call of step() has returned yet
NoReturn == [outcome |-> "none"]

\* the locals of step() outside a call
NoFrame ==
    /\ residual_norms_history = <<>>
    /\ omega = One
    /\ iteration = 0
    /\ converged = FALSE
    /\ dx = <<>>
    /\ dxOld = <<>>
    /\ isOscillate = FALSE
    /\ isStagnate = FALSE
    /\ linearIterations = 0

\* NewtonSolver(param, model): newtonIterations_(0), linearIterations_(0);
\* the two last-step counters are not initialized
Construct(params, models) ==
    /\ param_ \in params
    /\ model_ \in models
    /\ newtonIterations_ = 0
    /\ linearIterations_ = 0
    /\ newtonIterationsLast_ \in Indeterminate
    /\ linearIterationsLast_ \in Indeterminate
    /\ pc = "idle"
    /\ NoFrame
    /\ calls = <<>>
    /\ convAnswers = <<>>
    /\ linAnswers = <<>>
    /\ updAnswers = <<>>
    /\ applied = <<>>
    /\ terminal = <<>>
    /\ entry = [newton |-> 0, linear |-> 0,
                newtonLast |-> newtonIterationsLast_,
                linearLast |-> linearIterationsLast_]
    /\ ret = NoReturn
    /\ steps = 0
    /\ sumNewton = 0
    /\ sumLinear = 0

\* ------------------------------------------------------------------------
\* detectNewtonOscillations and stabilizeNewton
\* ------------------------------------------------------------------------
\* residual_history[i], the vector being indexed from 0
Snapshot(residual_history, i) == residual_history[i + 1]

\* F[p], phases being numbered from 0
Norm(F, p) == F[p + 1]

\* 1.0e-3
StagnationTol == Rat(1, 1000)

\* the summand with the two snapshots F1 and F2 exchanged
PhaseOscillatesExchanged(F0, F1, F2, p, tol) ==
    LET d1 == RatAbs(RatDiv(RatSub(Norm(F0, p), Norm(F1, p)), Norm(F0, p)))
        d2 == RatAbs(RatDiv(RatSub(Norm(F0, p), Norm(F2, p)), Norm(F0, p)))
    IN  RatLess(d1, tol) /\ RatLess(tol, d2)

\* the summand of oscillatePhase for phase p:
\*   d1 = |(F0[p] - F2[p]) / F0[p]|, d2 = |(F0[p] - F1[p]) / F0[p]|,
\*   (d1 < relaxRelTol) && (relaxRelTol < d2)
PhaseOscillates(F0, F1, F2, p, tol) ==
    LET d1 == RatAbs(RatDiv(RatSub(Norm(F0, p), Norm(F2, p)), Norm(F0, p)))
        d2 == RatAbs(RatDiv(RatSub(Norm(F0, p), Norm(F1, p)), Norm(F0, p)))
    IN  RatLess(d1, tol) /\ RatLess(tol, d2)

\* phase p shows a significant residual change:
\*   |(F1[p] - F2[p]) / F2[p]| > 1.0e-3
PhaseChanges(F1, F2, p) ==
    RatLess(StagnationTol,
            RatAbs(RatDiv(RatSub(Norm(F1, p), Norm(F2, p)), Norm(F2, p))))

\* oscillatePhase after the loop over the phases
OscillatePhase(residual_history, it, tol, np) ==
    LET F0 == Snapshot(residual_history, it)
        F1 == Snapshot(residual_history, it - 1)
        F2 == Snapshot(residual_history, it - 2)
    IN  Cardinality({p \in 0 .. np - 1 : PhaseOscillates(F0, F1, F2, p, tol)})

\* the detection active from the second iteration on, with the oldest
\* snapshot there is taken for F2
detectFromSecondIteration(residual_history, it, tol, np) ==
    IF it < 1
    THEN [oscillate |-> FALSE, stagnate |-> FALSE]
    ELSE LET old == IF it < 2 THEN 0 ELSE it - 2
             F0 == Snapshot(residual_history, it)
             F1 == Snapshot(residual_history, it - 1)
             F2 == Snapshot(residual_history, old)
         IN  [oscillate |->
                 Cardinality({p \in 0 .. np - 1 :
                                 PhaseOscillates(F0, F1, F2, p, tol)}) > 1,
              stagnate  |-> \A p \in 0 .. np - 1 : ~PhaseChanges(F1, F2, p)]

\* the detection reporting an oscillation as soon as one phase oscillates
detectOnePhaseSuffices(residual_history, it, tol, np) ==
    IF it < 2
    THEN [oscillate |-> FALSE, stagnate |-> FALSE]
    ELSE LET F1 == Snapshot(residual_history, it - 1)
             F2 == Snapshot(residual_history, it - 2)
         IN  [oscillate |-> OscillatePhase(residual_history, it, tol, np) > 0,
              stagnate  |-> \A p \in 0 .. np - 1 : ~PhaseChanges(F1, F2, p)]

\* detectNewtonOscillations(residual_history, it, relaxRelTol, oscillate,
\* stagnate) on a model of np phases: the two flags it writes
detectNewtonOscillations(residual_history, it, tol, np) ==
    IF it < 2
    THEN [oscillate |-> FALSE, stagnate |-> FALSE]
    ELSE LET F1 == Snapshot(residual_history, it - 1)
             F2 == Snapshot(residual_history, it - 2)
         IN  [oscillate |-> OscillatePhase(residual_history, it, tol, np) > 1,
              stagnate  |-> \A p \in 0 .. np - 1 : ~PhaseChanges(F1, F2, p)]

\* V::Zero(n)
VZero(n) == [i \in 1 .. n |-> Zero]

\* dx * omega
VScale(v, a) == [i \in DOMAIN v |-> RatMul(v[i], a)]

\* elementwise sum
VAdd(v, w) == [i \in DOMAIN v |-> RatAdd(v[i], w[i])]

\* stabilizeNewton returning at omega == 1 before it stores dx in dxOld
stabilizeNewtonEarlyReturn(dxIn, dxOldIn, w, relax_type) ==
    CASE relax_type = DAMPEN ->
           [dx     |-> IF w = One THEN dxIn ELSE VScale(dxIn, w),
            dxOld  |-> IF w = One THEN dxOldIn ELSE dxIn,
            thrown |-> FALSE]
      [] relax_type = SOR ->
           [dx     |-> IF w = One THEN dxIn
                       ELSE VAdd(VScale(dxIn, w),
                                 VScale(dxOldIn, RatSub(One, w))),
            dxOld  |-> IF w = One THEN dxOldIn ELSE dxIn,
            thrown |-> FALSE]
      [] OTHER ->
           [dx |-> dxIn, dxOld |-> dxIn, thrown |-> TRUE]

\* stabilizeNewton storing the relaxed update in dxOld
stabilizeNewtonStoresRelaxed(dxIn, dxOldIn, w, relax_type) ==
    CASE relax_type = DAMPEN ->
           [dx     |-> IF w = One THEN dxIn ELSE VScale(dxIn, w),
            dxOld  |-> IF w = One THEN dxIn ELSE VScale(dxIn, w),
            thrown |-> FALSE]
      [] relax_type = SOR ->
           LET relaxed == IF w = One THEN dxIn
                          ELSE VAdd(VScale(dxIn, w),
                                    VScale(dxOldIn, RatSub(One, w)))
           IN  [dx |-> relaxed, dxOld |-> relaxed, thrown |-> FALSE]
      [] OTHER ->
           [dx |-> dxIn, dxOld |-> dxIn, thrown |-> TRUE]

\* stabilizeNewton(dx, dxOld, omega, relax_type): the two vectors it leaves,
\* and whether it throws
stabilizeNewton(dxIn, dxOldIn, w, relax_type) ==
    LET tempDxOld == dxOldIn
    IN  CASE relax_type = DAMPEN ->
               [dx     |-> IF w = One THEN dxIn ELSE VScale(dxIn, w),
                dxOld  |-> dxIn,
                thrown |-> FALSE]
          [] relax_type = SOR ->
               [dx     |-> IF w = One THEN dxIn
                           ELSE VAdd(VScale(dxIn, w),
                                     VScale(tempDxOld, RatSub(One, w))),
                dxOld  |-> dxIn,
                thrown |-> FALSE]
          [] OTHER ->
               [dx |-> dxIn, dxOld |-> dxIn, thrown |-> TRUE]

\* omega decreased without the floor
RelaxOmegaNoFloor(w, increment, floor) == RatSub(w, increment)

\* omega after "omega -= relaxIncrement(); omega = std::max(omega, relaxMax())"
RelaxOmega(w, increment, floor) == RatMax(RatSub(w, increment), floor)

\* the loop condition without the cap on the iterations
LoopConditionNoCap(conv, it, max_iter, min_iter) ==
    ~conv \/ (min_iter > it)

\* the loop condition with the iteration cap off by one
LoopConditionInclusive(conv, it, max_iter, min_iter) ==
    (~conv /\ it <= max_iter) \/ (min_iter > it)

\* the loop condition without the minimum number of iterations
LoopConditionNoMinimum(conv, it, max_iter, min_iter) ==
    ~conv /\ it < max_iter

\* the loop condition with the minimum applied only while not converged
LoopConditionMinimumUnconverged(conv, it, max_iter, min_iter) ==
    ~conv /\ (it < max_iter \/ min_iter > it)

\* the condition of the main Newton loop
LoopCondition(conv, it, max_iter, min_iter) ==
    (~conv /\ it < max_iter) \/ (min_iter > it)

\* ------------------------------------------------------------------------
\* NewtonSolver::step
\* ------------------------------------------------------------------------
\* step() leaves: its locals go out of scope
LeaveStep(outcome, value, log) ==
    /\ ret' = [outcome          |-> outcome,
               value            |-> value,
               iteration        |-> iteration,
               converged        |-> converged,
               linearIterations |-> linearIterations,
               omega            |-> omega,
               calls            |-> log,
               convAnswers      |-> convAnswers,
               linAnswers       |-> linAnswers,
               updAnswers       |-> updAnswers,
               applied          |-> applied,
               history          |-> residual_norms_history]
    /\ pc' = "idle"
    /\ residual_norms_history' = <<>>
    /\ omega' = One
    /\ iteration' = 0
    /\ converged' = FALSE
    /\ dx' = <<>>
    /\ dxOld' = <<>>
    /\ isOscillate' = FALSE
    /\ isStagnate' = FALSE
    /\ linearIterations' = 0
    /\ calls' = <<>>
    /\ convAnswers' = <<>>
    /\ linAnswers' = <<>>
    /\ updAnswers' = <<>>
    /\ applied' = <<>>

\* prepareStep, the first assembly and the set-up of the main Newton loop
StepBegin ==
    /\ pc = "idle"
    /\ steps < MaxSteps
    /\ \E norms \in model_.norms, conv \in BOOLEAN :
          /\ residual_norms_history' = <<norms>>
          /\ converged' = conv
          /\ convAnswers' = <<conv>>
    /\ omega' = One
    /\ iteration' = 0
    /\ dx' = <<>>
    /\ dxOld' = VZero(model_.sizeNonLinear)
    /\ isOscillate' = FALSE
    /\ isStagnate' = FALSE
    /\ linearIterations' = 0
    /\ calls' = <<"prepareStep", "assemble(true)", "computeResidualNorms",
                  "getConvergence">>
    /\ linAnswers' = <<>>
    /\ updAnswers' = <<>>
    /\ applied' = <<>>
    /\ entry' = [newton     |-> newtonIterations_,
                 linear     |-> linearIterations_,
                 newtonLast |-> newtonIterationsLast_,
                 linearLast |-> linearIterationsLast_]
    /\ ret' = NoReturn
    /\ steps' = steps + 1
    /\ pc' = "loop"
    /\ UNCHANGED <<solverVars, terminal, sumNewton, sumLinear>>
    /\ UNCHANGED otherVars

\* while ((!converged && iteration < maxIter()) || minIter() > iteration)
LoopTest ==
    /\ pc = "loop"
    /\ pc' = IF LoopCondition(converged, iteration, maxIter, minIter)
             THEN "solve" ELSE "exit"
    /\ UNCHANGED <<solverVars, obsVars, residual_norms_history, omega,
                   iteration, converged, dx, dxOld, isOscillate, isStagnate,
                   linearIterations>>
    /\ UNCHANGED otherVars

\* the count of the last solve kept instead of the sum
AddLinearIterationsLastOnly(total, n) == n

\* linearIterations += model_->linearIterationsLastSolve()
AddLinearIterations(total, n) == total + n

\* V dx = model_->solveJacobianSystem();
\* linearIterations += model_->linearIterationsLastSolve();
SolveJacobianSystem ==
    /\ pc = "solve"
    /\ \E update \in model_.updates, n \in model_.linIts :
          /\ dx' = update
          /\ linearIterations' = AddLinearIterations(linearIterations, n)
          /\ linAnswers' = Append(linAnswers, n)
          /\ updAnswers' = Append(updAnswers, update)
    /\ calls' = calls \o <<"solveJacobianSystem", "linearIterationsLastSolve">>
    /\ pc' = "detect"
    /\ UNCHANGED <<solverVars, residual_norms_history, omega, iteration,
                   converged, dxOld, isOscillate, isStagnate, convAnswers,
                   applied, terminal, entry, ret, steps, sumNewton,
                   sumLinear>>
    /\ UNCHANGED otherVars

\* a driver that catches the failure of the linear solve and returns -1
SolveThrowsCaught ==
    /\ pc = "solve"
    /\ LeaveStep("failed", <<-1>>, Append(calls, "solveJacobianSystem"))
    /\ UNCHANGED <<solverVars, terminal, entry, steps, sumNewton, sumLinear>>
    /\ UNCHANGED otherVars

\* the model's linear solve fails: solveJacobianSystem throws, and step()
\* has no handler
SolveThrows ==
    /\ pc = "solve"
    /\ LeaveStep("exception", <<>>, Append(calls, "solveJacobianSystem"))
    /\ UNCHANGED <<solverVars, terminal, entry, steps, sumNewton, sumLinear>>
    /\ UNCHANGED otherVars

\* std::cout << " Oscillating behavior detected: Relaxation set to " << omega
OscillationMessage(w) ==
    [stream |-> "cout",
     text   |-> " Oscillating behavior detected: Relaxation set to ",
     value  |-> w]

\* std::cerr << "WARNING: Failed to compute converged solution in "
\*           << iteration << " iterations."
FailureMessage(it) ==
    [stream |-> "cerr",
     text   |-> "WARNING: Failed to compute converged solution in ",
     value  |-> it]

\* omega lowered only inside the branch of the terminal output
DetectOscillationsWhenLogged ==
    /\ pc = "detect"
    /\ LET d == detectNewtonOscillations(residual_norms_history, iteration,
                                         relaxRelTol, model_.numPhases)
       IN  /\ isOscillate' = d.oscillate
           /\ isStagnate' = d.stagnate
           /\ omega' = IF d.oscillate /\ model_.terminalOutputEnabled
                       THEN RelaxOmega(omega, relaxIncrement, relaxMax)
                       ELSE omega
           /\ terminal' = IF d.oscillate /\ model_.terminalOutputEnabled
                          THEN Append(terminal, OscillationMessage(omega'))
                          ELSE terminal
    /\ pc' = "relax"
    /\ UNCHANGED <<solverVars, residual_norms_history, iteration, converged,
                   dx, dxOld, linearIterations, calls, convAnswers,
                   linAnswers, updAnswers, applied, entry, ret, steps,
                   sumNewton, sumLinear>>
    /\ UNCHANGED otherVars

\* detectNewtonOscillations(...); if (isOscillate) { omega -= ...; }
DetectOscillations ==
    /\ pc = "detect"
    /\ LET d == detectNewtonOscillations(residual_norms_history, iteration,
                                         relaxRelTol, model_.numPhases)
       IN  /\ isOscillate' = d.oscillate
           /\ isStagnate' = d.stagnate
           /\ omega' = IF d.oscillate
                       THEN RelaxOmega(omega, relaxIncrement, relaxMax)
                       ELSE omega
           /\ terminal' = IF d.oscillate /\ model_.terminalOutputEnabled
                          THEN Append(terminal, OscillationMessage(omega'))
                          ELSE terminal
    /\ pc' = "relax"
    /\ UNCHANGED <<solverVars, residual_norms_history, iteration, converged,
                   dx, dxOld, linearIterations, calls, convAnswers,
                   linAnswers, updAnswers, applied, entry, ret, steps,
                   sumNewton, sumLinear>>
    /\ UNCHANGED otherVars

\* stabilizeNewton(dx, dxOld, omega, relaxtype);
StabilizeNewton ==
    /\ pc = "relax"
    /\ LET r == stabilizeNewton(dx, dxOld, omega, relaxType)
       IN  /\ ~r.thrown
           /\ dx' = r.dx
           /\ dxOld' = r.dxOld
    /\ pc' = "update"
    /\ UNCHANGED <<solverVars, obsVars, residual_norms_history, omega,
                   iteration, converged, isOscillate, isStagnate,
                   linearIterations>>
    /\ UNCHANGED otherVars

\* stabilizeNewton throws ("Can only handle DAMPEN and SOR relaxation
\* type."), and step() has no handler
StabilizeThrows ==
    /\ pc = "relax"
    /\ stabilizeNewton(dx, dxOld, omega, relaxType).thrown
    /\ LeaveStep("exception", <<>>, calls)
    /\ UNCHANGED <<solverVars, terminal, entry, steps, sumNewton, sumLinear>>
    /\ UNCHANGED otherVars

\* SolverParameters(param): the parameters a NewtonSolver is then made with
ConstructParameters ==
    /\ pc = "construct"
    /\ LET r == SolverParameters(param)
       IN  IF r.thrown
           THEN pc' = "unconstructed" /\ UNCHANGED param_
           ELSE pc' = "idle" /\ param_' = r.param
    /\ UNCHANGED <<model_, newtonIterations_, linearIterations_,
                   newtonIterationsLast_, linearIterationsLast_,
                   residual_norms_history, omega, iteration, converged, dx,
                   dxOld, isOscillate, isStagnate, linearIterations>>
    /\ UNCHANGED <<obsVars, impesVars, param, wellVars>>

\* an iteration that does not store the norms of its assembly
UpdateStateWithoutSnapshot ==
    /\ pc = "update"
    /\ \E norms \in model_.norms, conv \in BOOLEAN :
          /\ residual_norms_history' = residual_norms_history
          /\ converged' = conv
          /\ convAnswers' = Append(convAnswers, conv)
    /\ applied' = Append(applied, dx)
    /\ iteration' = iteration + 1
    /\ calls' = calls \o <<"updateState", "assemble(false)",
                           "computeResidualNorms", "getConvergence">>
    /\ pc' = "loop"
    /\ UNCHANGED <<solverVars, omega, dx, dxOld, isOscillate, isStagnate,
                   linearIterations, linAnswers, updAnswers, terminal,
                   entry, ret, steps, sumNewton, sumLinear>>
    /\ UNCHANGED otherVars

\* an iteration that assembles before it applies the update
UpdateStateAfterAssembly ==
    /\ pc = "update"
    /\ \E norms \in model_.norms, conv \in BOOLEAN :
          /\ residual_norms_history' = Append(residual_norms_history, norms)
          /\ converged' = conv
          /\ convAnswers' = Append(convAnswers, conv)
    /\ applied' = Append(applied, dx)
    /\ iteration' = iteration + 1
    /\ calls' = calls \o <<"assemble(false)", "updateState",
                           "computeResidualNorms", "getConvergence">>
    /\ pc' = "loop"
    /\ UNCHANGED <<solverVars, omega, dx, dxOld, isOscillate, isStagnate,
                   linearIterations, linAnswers, updAnswers, terminal,
                   entry, ret, steps, sumNewton, sumLinear>>
    /\ UNCHANGED otherVars

\* updateState, the next assembly, ++iteration and the convergence check
UpdateState ==
    /\ pc = "update"
    /\ \E norms \in model_.norms, conv \in BOOLEAN :
          /\ residual_norms_history' = Append(residual_norms_history, norms)
          /\ converged' = conv
          /\ convAnswers' = Append(convAnswers, conv)
    /\ applied' = Append(applied, dx)
    /\ iteration' = iteration + 1
    /\ calls' = calls \o <<"updateState", "assemble(false)",
                           "computeResidualNorms", "getConvergence">>
    /\ pc' = "loop"
    /\ UNCHANGED <<solverVars, omega, dx, dxOld, isOscillate, isStagnate,
                   linearIterations, linAnswers, updAnswers, terminal,
                   entry, ret, steps, sumNewton, sumLinear>>
    /\ UNCHANGED otherVars

\* "return -1; // -1 indicates that the solver has to be restarted"
FailureSentinel == -1

\* the failed step recorded in the last-step counters before the return
StepFailCounted ==
    /\ pc = "exit"
    /\ ~converged
    /\ terminal' = IF model_.terminalOutputEnabled
                   THEN Append(terminal, FailureMessage(iteration))
                   ELSE terminal
    /\ newtonIterationsLast_' = iteration
    /\ linearIterationsLast_' = linearIterations
    /\ LeaveStep("failed", <<FailureSentinel>>, calls)
    /\ UNCHANGED <<param_, model_, newtonIterations_, linearIterations_,
                   entry, steps, sumNewton, sumLinear>>
    /\ UNCHANGED otherVars

\* if (!converged) { ...; return -1; }
StepFail ==
    /\ pc = "exit"
    /\ ~converged
    /\ terminal' = IF model_.terminalOutputEnabled
                   THEN Append(terminal, FailureMessage(iteration))
                   ELSE terminal
    /\ LeaveStep("failed", <<FailureSentinel>>, calls)
    /\ UNCHANGED <<solverVars, entry, steps, sumNewton, sumLinear>>
    /\ UNCHANGED otherVars

\* the cumulative counters assigned instead of increased
AccumulateCountersAssign(c, lin, it) ==
    [newton     |-> it,
     linear     |-> lin,
     newtonLast |-> it,
     linearLast |-> lin]

\* the four counters after a successful step of it Newton iterations and
\* lin linear iterations
AccumulateCounters(c, lin, it) ==
    [newton     |-> c.newton + it,
     linear     |-> c.linear + lin,
     newtonLast |-> it,
     linearLast |-> lin]

\* the counters, afterStep, return linearIterations
StepSucceed ==
    /\ pc = "exit"
    /\ converged
    /\ LET c == AccumulateCounters(
                   [newton     |-> newtonIterations_,
                    linear     |-> linearIterations_,
                    newtonLast |-> newtonIterationsLast_,
                    linearLast |-> linearIterationsLast_],
                   linearIterations, iteration)
       IN  /\ newtonIterations_' = c.newton
           /\ linearIterations_' = c.linear
           /\ newtonIterationsLast_' = c.newtonLast
           /\ linearIterationsLast_' = c.linearLast
    /\ sumNewton' = sumNewton + iteration
    /\ sumLinear' = sumLinear + linearIterations
    /\ LeaveStep("success", <<linearIterations>>, Append(calls, "afterStep"))
    /\ UNCHANGED <<param_, model_, terminal, entry, steps>>
    /\ UNCHANGED otherVars

\* ------------------------------------------------------------------------
\* ImpesTPFAAD::solve
\* ------------------------------------------------------------------------
\* number of calls of solve() in one behaviour
MaxSolves == 2

\* the cells of the largest grid and the wells (wells_.number_of_wells)
ImpesCells == 1 .. 2
ImpesWells == 1 .. 1

\* the values a cell pressure starts with and a component of the linear
\* solver's dp takes
PressureValues == {Rat(1, 1), Rat(2, 1)}
CorrectionValues == {Rat(0, 1), Rat(1, 2)}

\* the vectors dp the linear solver may leave for a grid of nc cells
Corrections(nc) ==
    IF nc = 1 THEN [1 .. 1 -> CorrectionValues]
    ELSE {[c \in 1 .. nc |-> Rat(1, 2)],
          [c \in 1 .. nc |-> IF c = 1 THEN Zero ELSE Rat(1, 2)]}

\* the value of a double that was never written
IndeterminateDouble == {Rat(0, 1), Rat(7, 1)}

\* an nc x cols array with the same value everywhere
Uniform(nc, cols, x) == [c \in 1 .. nc |-> [k \in 1 .. cols |-> x]]

\* an nc x (np * np) array holding, per cell, an np x np matrix with a on
\* its diagonal and zero elsewhere
UniformDiagonal(nc, np, a) ==
    [c \in 1 .. nc |->
        [k \in 1 .. np * np |-> IF (k - 1) % (np + 1) = 0 THEN a ELSE Zero]]

\* M.block(0, col, nc_, 1): column col of a cells x columns array
Block(M, col) == [c \in DOMAIN M |-> M[c][col + 1]]

\* geo_.poreVolume()
poreVolume(nc) == [c \in 1 .. nc |-> Rat(2, 1)]

\* what fluid_.matrix may put into A and dA
FluidMatrices(nc, np) ==
    {[A |-> UniformDiagonal(nc, np, ab[1]), dA |-> UniformDiagonal(nc, np, ab[2])] :
        ab \in {<<One, Zero>>, <<One, One>>, <<Rat(2, 1), One>>}}

\* what fluid_.viscosity and fluid_.relperm put into mu and kr
FluidViscosity(nc, np) == Uniform(nc, np, One)
FluidRelperm(nc, np) == Uniform(nc, np, Rat(1, 2))

\* a rows x cols matrix of zeros, M(rows, cols)
ZeroMatrix(rows, cols) == [r \in 1 .. rows |-> [k \in 1 .. cols |-> Zero]]

\* spdiag(v)
spdiag(v) == [r \in DOMAIN v |-> [k \in DOMAIN v |-> IF r = k THEN v[r] ELSE Zero]]

\* diag(v) * J, J - K and J + K
RowScale(v, J) == [r \in DOMAIN J |-> [k \in DOMAIN J[r] |-> RatMul(v[r], J[r][k])]]
MatSub(J, K) == [r \in DOMAIN J |-> [k \in DOMAIN J[r] |-> RatSub(J[r][k], K[r][k])]]
MatAdd(J, K) == [r \in DOMAIN J |-> [k \in DOMAIN J[r] |-> RatAdd(J[r][k], K[r][k])]]

\* V * V, elementwise
VMul(v, w) == [c \in DOMAIN v |-> RatMul(v[c], w[c])]

\* AutoDiff::ForwardBlock: a value and one Jacobian per block of variables
ADBconstant(v, bpat) ==
    [value |-> v,
     derivative |-> [b \in 1 .. Len(bpat) |-> ZeroMatrix(Len(v), bpat[b])]]

ADBfunction(v, jac) == [value |-> v, derivative |-> jac]

\* V / ADB
VDivADB(v, a) ==
    [value |-> [c \in DOMAIN v |-> RatDiv(v[c], a.value[c])],
     derivative |->
        [b \in DOMAIN a.derivative |->
            RowScale([c \in DOMAIN v |->
                         RatSub(Zero, RatDiv(v[c], RatMul(a.value[c], a.value[c])))],
                     a.derivative[b])]]

\* V - ADB
VMinusADB(v, a) ==
    [value |-> [c \in DOMAIN v |-> RatSub(v[c], a.value[c])],
     derivative |->
        [b \in DOMAIN a.derivative |->
            RowScale([c \in DOMAIN v |-> Rat(-1, 1)], a.derivative[b])]]

\* V + ADB
VPlusADB(v, a) ==
    [value |-> [c \in DOMAIN v |-> RatAdd(v[c], a.value[c])],
     derivative |-> a.derivative]

\* V * ADB
VTimesADB(v, a) ==
    [value |-> VMul(v, a.value),
     derivative |-> [b \in DOMAIN a.derivative |-> RowScale(v, a.derivative[b])]]

\* ADB * ADB
ADBMul(a, b) ==
    [value |-> VMul(a.value, b.value),
     derivative |->
        [k \in DOMAIN a.derivative |->
            MatAdd(RowScale(a.value, b.derivative[k]),
                   RowScale(b.value, a.derivative[k]))]]

\* ADB - ADB
ADBSub(a, b) ==
    [value |-> [c \in DOMAIN a.value |-> RatSub(a.value[c], b.value[c])],
     derivative |->
        [k \in DOMAIN a.derivative |-> MatSub(a.derivative[k], b.derivative[k])]]

\* what ops_.div * (flux / face_B) may be on a grid of nc cells: zero
\* without internal faces, and with one face what leaves one cell enters
\* the other
FluxDivergences(nc, bpat) ==
    {ADBconstant([c \in 1 .. nc |-> Zero], bpat)}
    \cup {[value |-> <<One, Rat(-1, 1)>>,
           derivative |-> <<(<<(<<One, Rat(-1, 1)>>), (<<Rat(-1, 1), One>>)>>),
                            ZeroMatrix(nc, bpat[2])>>] : n \in {nc} \ {1}}

\* fvf(phase, p): one_ / ADB::function(A, jac)
fvf(d, phase, bpat) ==
    LET A == Block(d.A_, phase * (d.np_ + 1))
        dA == Block(d.dA_, phase * (d.np_ + 1))
        jac == <<spdiag(dA), ZeroMatrix(Len(A), bpat[2])>>
        one_ == [c \in 1 .. d.nc_ |-> One]
    IN  VDivADB(one_, ADBfunction(A, jac))

\* phaseRelPerm(phase): kr_.block(0, phase, nc_, 1)
phaseRelPerm(d, phase) == Block(d.kr_, phase)

\* phaseViscosity(phase, p): ADB::function(mu, jac)
phaseViscosity(d, phase, bpat) ==
    LET mu == Block(d.mu_, phase)
        dmu == Block(d.dmu_, phase)
        jac == <<spdiag(dmu), ZeroMatrix(Len(mu), bpat[2])>>
    IN  ADBfunction(mu, jac)

\* assert (0 <= phase); assert (phase < np_);
PhaseAsserted(d, phase) == 0 <= phase /\ phase < d.np_

\* PressureDependentFluidData(nc, fluid): the arrays are allocated, and
\* hold what the memory held
PressureDependentFluidData(nc, np, garbage) ==
    [nc_  |-> nc,
     np_  |-> np,
     A_   |-> Uniform(nc, np * np, garbage),
     dA_  |-> Uniform(nc, np * np, garbage),
     mu_  |-> Uniform(nc, np, garbage),
     dmu_ |-> Uniform(nc, np, garbage),
     kr_  |-> Uniform(nc, np, garbage)]

\* computeSatQuant(state): fluid_.relperm fills kr_
computeSatQuant(d) == [d EXCEPT !.kr_ = FluidRelperm(d.nc_, d.np_)]

\* computePressQuant(state): fluid_.matrix fills A_ and dA_,
\* fluid_.viscosity fills mu_ and is given no array for the derivative
computePressQuant(d, matrix) ==
    [d EXCEPT !.A_ = matrix.A, !.dA_ = matrix.dA,
              !.mu_ = FluidViscosity(d.nc_, d.np_)]

\* the component added to the residual instead of subtracted
AddComponent(residual, cell_B, component_contrib) ==
    ADBSub(residual,
           VMinusADB([c \in DOMAIN residual.value |-> Zero],
                     ADBMul(cell_B, component_contrib)))

\* cell_residual_ = cell_residual_ - (cell_B * component_contrib)
SubtractComponent(residual, cell_B, component_contrib) ==
    ADBSub(residual, ADBMul(cell_B, component_contrib))

\* assemble(dt, state, well_state): cell_residual_ after the phases
\* 0 .. phases - 1 of its loop; div_flux stands for ops_.div * (flux / face_B)
RECURSIVE assemble(_, _, _, _, _, _, _)
assemble(phases, dt, surfacevol, d, pv, div_flux, bpat) ==
    IF phases = 0 THEN ADBconstant(pv, bpat)
    ELSE LET phase == phases - 1
             cell_B == fvf(d, phase, bpat)
             z0 == Block(surfacevol, phase)
             q == [c \in DOMAIN pv |-> Zero]
             delta_t == [c \in DOMAIN pv |-> dt]
             component_contrib ==
                 VPlusADB(VMul(pv, z0),
                          VTimesADB(delta_t, VMinusADB(q, div_flux)))
         IN  SubtractComponent(
                 assemble(phases - 1, dt, surfacevol, d, pv, div_flux, bpat),
                 cell_B, component_contrib)

\* the wells and the perforations of the largest Wells structure
MaxWells == 2
MaxPerforations == 3

\* a Wells structure of one well with one perforation: number_of_wells and
\* well_connpos, whose entry w + 1 here is the C array's entry w
OneWell == [number_of_wells |-> 1, well_connpos |-> <<0, 1>>]

\* the loops closed at their upper end: perf <= wells_.well_connpos[w+1]
WellPerforationsInclusive(wells) ==
    UNION {{<<perf, w>> : perf \in wells.well_connpos[w + 1] ..
                                    wells.well_connpos[w + 2]} :
           w \in 0 .. wells.number_of_wells - 1}

\* the (row, column) pairs that the two loops of assemble() put into w2p,
\* each with the value 1.0: for every well w the perforations
\* well_connpos[w] .. well_connpos[w+1] - 1
WellPerforations(wells) ==
    UNION {{<<perf, w>> : perf \in wells.well_connpos[w + 1] ..
                                    wells.well_connpos[w + 2] - 1} :
           w \in 0 .. wells.number_of_wells - 1}

\* M well_to_perf(well_cells.size(), nw) after setFromTriplets(w2p), where
\* well_cells has wells_.well_connpos[nw] entries; row r and column c here
\* are the matrix's row r - 1 and column c - 1
WellToPerf(wells) ==
    LET nw == wells.number_of_wells
        rows == wells.well_connpos[nw + 1]
        w2p == WellPerforations(wells)
    IN  [r \in 1 .. rows |->
            [c \in 1 .. nw |-> IF <<r - 1, c - 1>> \in w2p THEN One ELSE Zero]]

\* the product of a matrix row with a vector, over its first n columns
RECURSIVE RowTimes(_, _, _)
RowTimes(row, x, n) ==
    IF n = 0 THEN Zero
    ELSE RatAdd(RowTimes(row, x, n - 1), RatMul(row[n], x[n]))

\* the value of p_perfwell = well_to_perf*bhp + well_perf_dp, with
\* well_perf_dp = V::Zero(well_cells.size())
PerfWellPressure(w2p_matrix, bhp) ==
    LET well_perf_dp == [r \in DOMAIN w2p_matrix |-> Zero]
    IN  [r \in DOMAIN w2p_matrix |->
            RatAdd(RowTimes(w2p_matrix[r], bhp, Len(bhp)), well_perf_dp[r])]

\* the Jacobian block of the well pressures taken for the matrix
SystemMatrixOfWells(residual) == residual.derivative[2]

\* M matr = cell_residual_.derivative()[0];
SystemMatrix(residual) == residual.derivative[1]

\* the new pressures copied into the surface volumes as well
CopyToStateAndVolumes(state, p) ==
    [state EXCEPT !.pressure = p,
                  !.surfacevol = [c \in DOMAIN @ |-> [k \in DOMAIN @[c] |-> p[c]]]]

\* std::copy(&p[0], &p[0] + nc, state.pressure().begin());
CopyToState(state, p) == [state EXCEPT !.pressure = p]

\* the BlackoilState handed to solve()
State ==
    [pressure   |-> state_pressure,
     saturation |-> state_saturation,
     surfacevol |-> state_surfacevol]

\* the time steps handed to solve()
TimeSteps == {Rat(1, 1)}

\* no call of solve() has ended yet
NoSolve == [outcome |-> "none"]

\* no per-phase function has been called yet
NoCall == [op |-> "none"]

\* ADB::null()
ADBnull == [value |-> <<>>, derivative |-> <<>>]

\* the grids, fluids and states of the runs: cells, phases and the surface
\* volume of every phase in every cell
ImpesConfigurations ==
    {[nc |-> 1, np |-> 1, z |-> One], [nc |-> 1, np |-> 1, z |-> Rat(2, 3)],
     [nc |-> 2, np |-> 1, z |-> One], [nc |-> 1, np |-> 2, z |-> One]}

\* the states solve() is called with, and an ImpesTPFAAD that has not
\* solved yet
ImpesArguments ==
    /\ \E g \in ImpesConfigurations :
          /\ state_pressure \in [1 .. g.nc -> PressureValues]
          /\ state_saturation = Uniform(g.nc, g.np, Rat(1, g.np))
          /\ state_surfacevol = Uniform(g.nc, g.np, g.z)
    /\ well_bhp \in [ImpesWells -> {Rat(3, 1)}]
    /\ wells_ = OneWell
    /\ well_to_perf = <<>>
    /\ p_perfwell = <<>>
    /\ cell_residual_ = ADBnull
    /\ fluidCall = NoCall
    /\ linsolves = <<>>
    /\ impesRet = NoSolve

ImpesConstruct ==
    /\ ImpesArguments
    /\ \E garbage \in IndeterminateDouble :
          pdepfdata_ = PressureDependentFluidData(Len(state_pressure),
                                                  Len(state_surfacevol[1]),
                                                  garbage)

\* the ImpesTPFAAD members while only the Newton solver runs
ImpesUnused ==
    /\ state_pressure = [c \in ImpesCells |-> One]
    /\ state_saturation = Uniform(2, 1, One)
    /\ state_surfacevol = Uniform(2, 1, One)
    /\ well_bhp = [w \in ImpesWells |-> One]
    /\ wells_ = OneWell
    /\ well_to_perf = <<>>
    /\ p_perfwell = <<>>
    /\ pdepfdata_ = PressureDependentFluidData(2, 1, Zero)
    /\ cell_residual_ = ADBnull
    /\ fluidCall = NoCall
    /\ linsolves = <<>>
    /\ impesRet = NoSolve

\* the pressure written before the solver's report is looked at
PressureAfterSolveUnchecked(p0, dp, rep_converged) ==
    [thrown   |-> ~rep_converged,
     pressure |-> [c \in DOMAIN p0 |-> RatSub(p0[c], dp[c])]]

\* if (!rep.converged) THROW(...); const V p = p0 - dp;
PressureAfterSolve(p0, dp, rep_converged) ==
    IF ~rep_converged
    THEN [thrown |-> TRUE, pressure |-> p0]
    ELSE [thrown   |-> FALSE,
          pressure |-> [c \in DOMAIN p0 |-> RatSub(p0[c], dp[c])]]

\* solve(dt, state, well_state): computeSatQuant, assemble, one call of
\* linsolver_.solve, and the pressure update
ImpesSolve ==
    /\ Len(linsolves) < MaxSolves
    /\ LET nc == Len(state_pressure)
           np == pdepfdata_.np_
           bpat == <<nc, Len(well_bhp)>>
       IN  \E matrix \in FluidMatrices(nc, np),
              div_flux \in FluxDivergences(nc, bpat),
              dt \in TimeSteps,
              dp \in Corrections(nc),
              rep_converged \in BOOLEAN :
              LET d == computePressQuant(computeSatQuant(pdepfdata_), matrix)
                  residual == assemble(np, dt, state_surfacevol, d,
                                       poreVolume(nc), div_flux, bpat)
                  p0 == state_pressure
                  r == PressureAfterSolve(p0, dp, rep_converged)
                  written == CopyToState(State, r.pressure)
              IN  /\ pdepfdata_' = d
                  /\ cell_residual_' = residual
                  /\ well_to_perf' = WellToPerf(wells_)
                  /\ p_perfwell' = PerfWellPressure(WellToPerf(wells_), well_bhp)
                  /\ linsolves' = Append(linsolves,
                                         [matr |-> SystemMatrix(residual),
                                          rhs  |-> residual.value,
                                          dp   |-> dp,
                                          converged |-> rep_converged])
                  /\ state_pressure' = written.pressure
                  /\ state_saturation' = written.saturation
                  /\ state_surfacevol' = written.surfacevol
                  /\ impesRet' = [outcome  |-> IF r.thrown THEN "thrown" ELSE "returned",
                                  pressure |-> p0,
                                  solves   |-> Len(linsolves)]
    /\ UNCHANGED <<well_bhp, wells_, fluidCall, solverVars, localVars, obsVars,
                   ctorVars>>

\* the phase indexes the per-phase functions are called with
PhaseIndexes(d) == -1 .. d.np_

\* what a per-phase function leaves when its index is outside the arrays:
\* the read is outside the array, so the call may hand back whatever the
\* memory holds, or the process may end
OutOfRange(op, phase, d) ==
    {[op |-> op, phase |-> phase, outcome |-> "aborted", value |-> <<>>]}
    \cup {[op |-> op, phase |-> phase, outcome |-> "returned",
            value |-> [c \in 1 .. d.nc_ |-> g]] : g \in IndeterminateDouble}

\* what a failed assert leaves: the process aborts, unless the build
\* defines NDEBUG and the function goes on
AssertFailed(op, phase, d) ==
    {[op |-> op, phase |-> phase, outcome |-> "aborted", value |-> <<>>]}
    \cup {r \in OutOfRange(op, phase, d) : r.outcome = "returned"}

\* a call of fvf(phase, p)
CallFvf ==
    /\ \E phase \in PhaseIndexes(pdepfdata_) :
          IF PhaseAsserted(pdepfdata_, phase)
          THEN fluidCall' =
                  [op |-> "fvf", phase |-> phase, outcome |-> "returned",
                   value |-> fvf(pdepfdata_, phase,
                                 <<pdepfdata_.nc_, Len(well_bhp)>>).value]
          ELSE fluidCall' \in AssertFailed("fvf", phase, pdepfdata_)
    /\ UNCHANGED <<state_pressure, state_saturation, state_surfacevol,
                   well_bhp, pdepfdata_, cell_residual_, linsolves, impesRet>>
    /\ UNCHANGED <<solverVars, localVars, obsVars, ctorVars, wellVars>>

\* a call of phaseRelPerm(phase), which has no assert
CallPhaseRelPerm ==
    /\ \E phase \in PhaseIndexes(pdepfdata_) :
          IF 0 <= phase /\ phase < Len(pdepfdata_.kr_[1])
          THEN fluidCall' =
                  [op |-> "phaseRelPerm", phase |-> phase,
                   outcome |-> "returned",
                   value |-> phaseRelPerm(pdepfdata_, phase)]
          ELSE fluidCall' \in OutOfRange("phaseRelPerm", phase, pdepfdata_)
    /\ UNCHANGED <<state_pressure, state_saturation, state_surfacevol,
                   well_bhp, pdepfdata_, cell_residual_, linsolves, impesRet>>
    /\ UNCHANGED <<solverVars, localVars, obsVars, ctorVars, wellVars>>

\* a call of phaseViscosity(phase, p)
CallPhaseViscosity ==
    /\ \E phase \in PhaseIndexes(pdepfdata_) :
          IF PhaseAsserted(pdepfdata_, phase)
          THEN fluidCall' =
                  [op |-> "phaseViscosity", phase |-> phase,
                   outcome |-> "returned",
                   value |-> phaseViscosity(pdepfdata_, phase,
                                            <<pdepfdata_.nc_, Len(well_bhp)>>).value]
          ELSE fluidCall' \in AssertFailed("phaseViscosity", phase, pdepfdata_)
    /\ UNCHANGED <<state_pressure, state_saturation, state_surfacevol,
                   well_bhp, pdepfdata_, cell_residual_, linsolves, impesRet>>
    /\ UNCHANGED <<solverVars, localVars, obsVars, ctorVars, wellVars>>

Next ==
    \/ StepBegin
    \/ LoopTest
    \/ SolveJacobianSystem
    \/ SolveThrows
    \/ DetectOscillations
    \/ StabilizeNewton
    \/ UpdateState
    \/ StepFail
    \/ StepSucceed

\* ------------------------------------------------------------------------
\* Specifications
\* ------------------------------------------------------------------------
\* the iteration limits vary; a one-phase model
IterationParameters ==
    {[DefaultParameters EXCEPT !.max_iter_ = mx, !.min_iter_ = mn] :
        mx \in -1 .. MaxIter, mn \in 0 .. MinIter}

OnePhaseModel ==
    [numPhases     |-> 1,
     sizeNonLinear |-> 1,
     norms         |-> {<<One>>},
     updates       |-> {<<Rat(4, 1)>>},
     linIts        |-> {0, 1},
     terminalOutputEnabled |-> FALSE]

Init ==
    /\ Construct(IterationParameters, {OnePhaseModel})
    /\ ImpesUnused
    /\ param = NoGroup

Spec == Init /\ [][Next]_vars

\* the relaxation parameters vary; a two-phase model whose residual norms
\* move between two levels
RelaxationParameters ==
    {[DefaultParameters EXCEPT !.max_iter_ = RelaxIter,
                               !.relax_max_ = rm, !.relax_increment_ = ri] :
        rm \in {Rat(1, 2), Rat(3, 2)},
        ri \in {Rat(1, 10), Rat(2, 5), Rat(-1, 10)}}

TwoPhaseModel ==
    [numPhases     |-> 2,
     sizeNonLinear |-> 1,
     norms         |-> {<<One, One>>, <<Rat(1, 2), Rat(1, 2)>>},
     updates       |-> {<<Rat(4, 1)>>},
     linIts        |-> {1},
     terminalOutputEnabled |-> FALSE]

InitRelax ==
    /\ Construct(RelaxationParameters, {TwoPhaseModel})
    /\ ImpesUnused
    /\ param = NoGroup

SpecRelax == InitRelax /\ [][Next]_vars

\* detectNewtonOscillations alone: step() stands before its call in
\* iteration it, with it + 1 snapshots of np phases in the history
MaxPhases == 2

ExampleNorms == {Zero, Rat(1, 2), Rat(4, 5), Rat(9, 10), One}
LevelNorms == {Rat(1, 2), Rat(9, 10), One}

DetectInputs ==
    {[np |-> 1, it |-> it, history |-> h] :
        it \in 2 .. 3, h \in UNION {[1 .. n -> [1 .. 1 -> ExampleNorms]] : n \in 3 .. 4}}
    \cup
    UNION {{[np |-> np, it |-> 2, history |-> h] :
               h \in [1 .. 3 -> [1 .. np -> LevelNorms]]} : np \in 2 .. MaxPhases}

InitDetect ==
    /\ param_ \in {[DefaultParameters EXCEPT !.relax_rel_tol_ = t] :
                      t \in {Rat(1, 5), Rat(1, 2)}}
    /\ \E inp \in DetectInputs :
          /\ Len(inp.history) = inp.it + 1
          /\ model_ = [numPhases     |-> inp.np,
                       sizeNonLinear |-> 1,
                       norms         |-> {inp.history[1]},
                       updates       |-> {<<Rat(4, 1)>>},
                       linIts        |-> {1},
                       terminalOutputEnabled |-> FALSE]
          /\ residual_norms_history = inp.history
          /\ iteration = inp.it
          /\ calls = <<"prepareStep", "assemble(true)", "computeResidualNorms",
                       "getConvergence">>
                     \o [i \in 1 .. 6 * inp.it |->
                           <<"solveJacobianSystem", "linearIterationsLastSolve",
                             "updateState", "assemble(false)",
                             "computeResidualNorms", "getConvergence">>[((i - 1) % 6) + 1]]
                     \o <<"solveJacobianSystem", "linearIterationsLastSolve">>
          /\ convAnswers = [i \in 1 .. inp.it + 1 |-> FALSE]
          /\ linAnswers = [i \in 1 .. inp.it + 1 |-> 1]
          /\ updAnswers = [i \in 1 .. inp.it + 1 |-> <<Rat(4, 1)>>]
          /\ applied = [i \in 1 .. inp.it |-> <<Rat(4, 1)>>]
          /\ terminal = <<>>
          /\ linearIterations = inp.it + 1
    /\ newtonIterations_ = 0
    /\ linearIterations_ = 0
    /\ newtonIterationsLast_ = 0
    /\ linearIterationsLast_ = 0
    /\ pc = "detect"
    /\ omega = One
    /\ converged = FALSE
    /\ dx = <<Rat(4, 1)>>
    /\ dxOld = <<Rat(4, 1)>>
    /\ isOscillate = FALSE
    /\ isStagnate = FALSE
    /\ entry = [newton |-> 0, linear |-> 0, newtonLast |-> 0, linearLast |-> 0]
    /\ ret = NoReturn
    /\ steps = 1
    /\ sumNewton = 0
    /\ sumLinear = 0
    /\ ImpesUnused
    /\ param = NoGroup

SpecDetect == InitDetect /\ [][DetectOscillations]_vars

\* both relaxation types, with and without terminal output; a two-phase
\* model whose updates vary
SorParameters ==
    {[DefaultParameters EXCEPT !.relax_type_ = type,
                               !.max_iter_ = RelaxIter,
                               !.relax_increment_ = ri] :
        type \in {DAMPEN, SOR}, ri \in {Rat(1, 4), Rat(1, 2)}}

SorModels ==
    {[TwoPhaseModel EXCEPT !.sizeNonLinear = 2,
                           !.updates = {<<Rat(4, 1), Rat(-2, 1)>>,
                                        <<Rat(-2, 1), Rat(3, 1)>>},
                           !.terminalOutputEnabled = enabled] :
        enabled \in BOOLEAN}

\* the solver's steps before the last one of the behaviour have ended in
\* the first linear solve with an exception
InitSor ==
    /\ param_ \in SorParameters
    /\ model_ \in SorModels
    /\ newtonIterations_ = 0
    /\ linearIterations_ = 0
    /\ newtonIterationsLast_ = 0
    /\ linearIterationsLast_ = 0
    /\ pc = "idle"
    /\ NoFrame
    /\ calls = <<>>
    /\ convAnswers = <<>>
    /\ linAnswers = <<>>
    /\ updAnswers = <<>>
    /\ applied = <<>>
    /\ terminal = <<>>
    /\ entry = [newton |-> 0, linear |-> 0, newtonLast |-> 0, linearLast |-> 0]
    /\ ret = [outcome          |-> "exception",
              value            |-> <<>>,
              iteration        |-> 0,
              converged        |-> FALSE,
              linearIterations |-> 0,
              omega            |-> One,
              calls            |-> <<"prepareStep", "assemble(true)",
                                     "computeResidualNorms", "getConvergence",
                                     "solveJacobianSystem">>,
              convAnswers      |-> <<FALSE>>,
              linAnswers       |-> <<>>,
              updAnswers       |-> <<>>,
              applied          |-> <<>>,
              history          |-> <<(<<One, One>>)>>]
    /\ steps = MaxSteps - 1
    /\ sumNewton = 0
    /\ sumLinear = 0
    /\ ImpesUnused
    /\ param = NoGroup

SpecSor == InitSor /\ [][Next]_vars

\* both relaxation types; models of no, one and two phases with terminal
\* output, whose residual norms (one per phase and one more) move between
\* two levels and whose updates vary
PhaseParameters ==
    {[DefaultParameters EXCEPT !.relax_type_ = type,
                               !.max_iter_ = RelaxIter,
                               !.relax_increment_ = Rat(1, 2)] :
        type \in {DAMPEN, SOR}}

PhaseModels ==
    {[numPhases     |-> np,
      sizeNonLinear |-> 2,
      norms         |-> {[i \in 1 .. np + 1 |-> One],
                         [i \in 1 .. np + 1 |-> Rat(1, 2)]},
      updates       |-> {<<Rat(4, 1), Rat(-2, 1)>>, <<Rat(-2, 1), Rat(3, 1)>>},
      linIts        |-> {1},
      terminalOutputEnabled |-> TRUE] : np \in 0 .. 2}

\* a newly made solver; the behaviour holds one call of step(), counted as
\* the last of the MaxSteps calls
InitPhases ==
    /\ param_ \in PhaseParameters
    /\ model_ \in PhaseModels
    /\ newtonIterations_ = 0
    /\ linearIterations_ = 0
    /\ newtonIterationsLast_ = 0
    /\ linearIterationsLast_ = 0
    /\ pc = "idle"
    /\ NoFrame
    /\ calls = <<>>
    /\ convAnswers = <<>>
    /\ linAnswers = <<>>
    /\ updAnswers = <<>>
    /\ applied = <<>>
    /\ terminal = <<>>
    /\ entry = [newton |-> 0, linear |-> 0, newtonLast |-> 0, linearLast |-> 0]
    /\ ret = NoReturn
    /\ steps = MaxSteps - 1
    /\ sumNewton = 0
    /\ sumLinear = 0
    /\ ImpesUnused
    /\ param = NoGroup

SpecPhases == InitPhases /\ [][Next]_vars

\* the iteration limits vary over negative values too: the constructor
\* takes any int for max_iter and min_iter
TerminationParameters ==
    {[DefaultParameters EXCEPT !.max_iter_ = mx, !.min_iter_ = mn] :
        mx \in -1 .. MaxIter, mn \in -1 .. MinIter}

\* a newly made solver; the behaviour holds one call of step(), counted as
\* the last of the MaxSteps calls
InitTerminate ==
    /\ param_ \in TerminationParameters
    /\ model_ = OnePhaseModel
    /\ newtonIterations_ = 0
    /\ linearIterations_ = 0
    /\ newtonIterationsLast_ = 0
    /\ linearIterationsLast_ = 0
    /\ pc = "idle"
    /\ NoFrame
    /\ calls = <<>>
    /\ convAnswers = <<>>
    /\ linAnswers = <<>>
    /\ updAnswers = <<>>
    /\ applied = <<>>
    /\ terminal = <<>>
    /\ entry = [newton |-> 0, linear |-> 0, newtonLast |-> 0, linearLast |-> 0]
    /\ ret = NoReturn
    /\ steps = MaxSteps - 1
    /\ sumNewton = 0
    /\ sumLinear = 0
    /\ ImpesUnused
    /\ param = NoGroup

\* the statements of step() after its set-up, every call of the model
\* returning
StepRuns ==
    \/ LoopTest
    \/ SolveJacobianSystem
    \/ DetectOscillations
    \/ StabilizeNewton
    \/ UpdateState
    \/ StepFail
    \/ StepSucceed

NextTerminate ==
    \/ StepBegin
    \/ StepRuns

\* step() is sequential code: once called, its next statement is executed
SpecTerminate ==
    InitTerminate /\ [][NextTerminate]_vars /\ WF_vars(StepRuns)

\* the constructor of the parameters and stabilizeNewton alone
ParameterGroups ==
    {[has        |-> has,
      relax_max  |-> Rat(3, 4),
      max_iter   |-> 3,
      min_iter   |-> 0,
      relax_type |-> type] :
        has \in SUBSET {"relax_max", "max_iter", "min_iter", "relax_type"},
        type \in {"dampen", "sor", "SOR", "newton", ""}}

\* before SolverParameters(param) runs
InitParameters ==
    /\ param \in ParameterGroups
    /\ pc = "construct"
    /\ param_ = DefaultParameters
    /\ model_ = TwoPhaseModel
    /\ newtonIterations_ = 0
    /\ linearIterations_ = 0
    /\ newtonIterationsLast_ = 0
    /\ linearIterationsLast_ = 0
    /\ NoFrame
    /\ calls = <<>>
    /\ convAnswers = <<>>
    /\ linAnswers = <<>>
    /\ updAnswers = <<>>
    /\ applied = <<>>
    /\ terminal = <<>>
    /\ entry = [newton |-> 0, linear |-> 0, newtonLast |-> 0, linearLast |-> 0]
    /\ ret = NoReturn
    /\ steps = 0
    /\ sumNewton = 0
    /\ sumLinear = 0
    /\ ImpesUnused

\* static_cast<RelaxType>(2)
NoRelaxType == "RelaxType(2)"

UpdateVectors == {<<Rat(4, 1), Rat(-2, 1)>>, <<Rat(-2, 1), Rat(3, 1)>>,
                  <<Zero, One>>}

\* step() stands before its call of stabilizeNewton in iteration 2: omega is
\* below 1 when the three snapshots oscillate
InitStabilize ==
    /\ \E type \in {DAMPEN, SOR, NoRelaxType}, oscillate \in BOOLEAN,
          floor \in {Rat(1, 2), Rat(3, 4)} :
          /\ param_ = [DefaultParameters EXCEPT !.relax_type_ = type,
                                                !.relax_increment_ = Rat(1, 2),
                                                !.relax_max_ = floor]
          /\ residual_norms_history =
                 IF oscillate
                 THEN <<(<<One, One>>), (<<Rat(1, 2), Rat(1, 2)>>), (<<One, One>>)>>
                 ELSE <<(<<One, One>>), (<<One, One>>), (<<One, One>>)>>
          /\ omega = IF oscillate THEN floor ELSE One
          /\ isOscillate = oscillate
          /\ isStagnate = ~oscillate
    /\ model_ = [TwoPhaseModel EXCEPT !.sizeNonLinear = 2,
                                      !.updates = UpdateVectors]
    /\ updAnswers \in [1 .. 3 -> UpdateVectors]
    /\ updAnswers[1] = <<Zero, One>>
    /\ applied = <<updAnswers[1], updAnswers[2]>>
    /\ dx = updAnswers[3]
    /\ dxOld = updAnswers[2]
    /\ iteration = 2
    /\ converged = FALSE
    /\ convAnswers = <<FALSE, FALSE, FALSE>>
    /\ linAnswers = <<1, 1, 1>>
    /\ linearIterations = 3
    /\ calls = <<"prepareStep", "assemble(true)", "computeResidualNorms",
                 "getConvergence">>
               \o [i \in 1 .. 12 |->
                     <<"solveJacobianSystem", "linearIterationsLastSolve",
                       "updateState", "assemble(false)",
                       "computeResidualNorms", "getConvergence">>[((i - 1) % 6) + 1]]
               \o <<"solveJacobianSystem", "linearIterationsLastSolve">>
    /\ terminal = <<>>
    /\ newtonIterations_ = 0
    /\ linearIterations_ = 0
    /\ newtonIterationsLast_ = 0
    /\ linearIterationsLast_ = 0
    /\ pc = "relax"
    /\ entry = [newton |-> 0, linear |-> 0, newtonLast |-> 0, linearLast |-> 0]
    /\ ret = NoReturn
    /\ steps = 1
    /\ sumNewton = 0
    /\ sumLinear = 0
    /\ ImpesUnused
    /\ param = NoGroup

NextStabilize ==
    \/ ConstructParameters
    \/ StabilizeNewton
    \/ StabilizeThrows

SpecStabilize == (InitParameters \/ InitStabilize) /\ [][NextStabilize]_vars

\* the per-phase functions of the fluid data alone, called after
\* computeSatQuant and computePressQuant as assemble() calls them
InitFluid ==
    /\ Construct({DefaultParameters}, {OnePhaseModel})
    /\ newtonIterationsLast_ = 0
    /\ linearIterationsLast_ = 0
    /\ ImpesArguments
    /\ \E garbage \in IndeterminateDouble,
          matrix \in FluidMatrices(Len(state_pressure), Len(state_surfacevol[1])) :
          pdepfdata_ =
             computePressQuant(
                computeSatQuant(
                   PressureDependentFluidData(Len(state_pressure),
                                              Len(state_surfacevol[1]),
                                              garbage)),
                matrix)
    /\ param = NoGroup

NextFluid ==
    \/ CallPhaseRelPerm
    \/ CallFvf
    \/ CallPhaseViscosity

SpecFluid == InitFluid /\ [][NextFluid]_vars

\* ImpesTPFAAD::solve alone
InitImpes ==
    /\ Construct({DefaultParameters}, {OnePhaseModel})
    /\ newtonIterationsLast_ = 0
    /\ linearIterationsLast_ = 0
    /\ ImpesConstruct
    /\ param = NoGroup

SpecImpes == InitImpes /\ [][ImpesSolve]_vars

\* the Wells structures solve() is run with: well_connpos does not
\* decrease, and starts at 0 or, for a structure that was not built by
\* add_well, at 1
WellStructures ==
    UNION {{[number_of_wells |-> nw, well_connpos |-> pos] :
            pos \in {q \in [1 .. nw + 1 -> 0 .. MaxPerforations] :
                        /\ q[1] <= 1
                        /\ \A w \in 1 .. nw : q[w] <= q[w + 1]}} :
           nw \in 1 .. MaxWells}

\* ImpesTPFAAD::solve on one cell with one phase, over the Wells structures
\* and with a different bottom-hole pressure for every well
InitWells ==
    /\ Construct({DefaultParameters}, {OnePhaseModel})
    /\ newtonIterationsLast_ = 0
    /\ linearIterationsLast_ = 0
    /\ state_pressure = <<One>>
    /\ state_saturation = Uniform(1, 1, One)
    /\ state_surfacevol = Uniform(1, 1, One)
    /\ wells_ \in WellStructures
    /\ well_bhp = [w \in 1 .. wells_.number_of_wells |-> Rat(w + 2, 1)]
    /\ well_to_perf = <<>>
    /\ p_perfwell = <<>>
    /\ cell_residual_ = ADBnull
    /\ fluidCall = NoCall
    /\ linsolves = <<>>
    /\ impesRet = NoSolve
    /\ pdepfdata_ = PressureDependentFluidData(1, 1, Zero)
    /\ param = NoGroup

SpecWells == InitWells /\ [][ImpesSolve]_vars

\* ------------------------------------------------------------------------
\* Properties of NewtonSolver::step
\* ------------------------------------------------------------------------
\* how often the model's method name was called
CountCalls(log, name) == Cardinality({i \in DOMAIN log : log[i] = name})

RECURSIVE SumSeq(_)
SumSeq(q) == IF q = <<>> THEN 0 ELSE q[1] + SumSeq(Tail(q))

MaxOf(a, b) == IF a < b THEN b ELSE a

\* step() has returned a value (it did not leave by an exception)
Returned == ret.outcome \in {"success", "failed"}

\* no answer of getConvergence in the call that returned was true
NeverConverged == \A i \in DOMAIN ret.convAnswers : ~ret.convAnswers[i]

Assemblies(log) == CountCalls(log, "assemble(true)") + CountCalls(log, "assemble(false)")

\* C1 as stated: for every (max_iter, min_iter), a call on a model that never
\* reports convergence returns -1 with iteration = max_iter, after exactly
\* max_iter calls of solveJacobianSystem and max_iter + 1 of assemble.
C1_AsStated ==
    (Returned /\ NeverConverged) =>
        /\ ret.value = <<-1>>
        /\ ret.iteration = maxIter
        /\ CountCalls(ret.calls, "solveJacobianSystem") = maxIter
        /\ Assemblies(ret.calls) = maxIter + 1

\* C1 amended: a call on a model that never reports convergence returns -1
\* with iteration = max(max_iter, min_iter, 0), after exactly that many calls
\* of solveJacobianSystem and one more of assemble; this is max_iter when
\* max_iter >= 0 and min_iter <= max_iter.
C1_NeverConvergedFails ==
    (Returned /\ NeverConverged) =>
        LET n == MaxOf(MaxOf(maxIter, minIter), 0)
        IN  /\ ret.value = <<-1>>
            /\ ret.iteration = n
            /\ CountCalls(ret.calls, "solveJacobianSystem") = n
            /\ Assemblies(ret.calls) = n + 1
            /\ CountCalls(ret.calls, "assemble(true)") = 1
            /\ (maxIter >= 0 /\ minIter <= maxIter) => n = maxIter

C1_Witness ==
    /\ Returned /\ NeverConverged
    /\ maxIter = 2 /\ minIter = 1
    /\ ret.iteration = 2
    /\ ret.value = <<-1>>

\* C2 as stated: with min_iter = 1 and convergence reported at iteration 0,
\* step() performs exactly one further iteration and returns success.
C2_AsStated ==
    (Returned /\ minIter = 1 /\ ret.convAnswers[1]) =>
        /\ ret.outcome = "success"
        /\ ret.iteration = 1
        /\ CountCalls(ret.calls, "solveJacobianSystem") = 1
        /\ CountCalls(ret.calls, "updateState") = 1
        /\ CountCalls(ret.calls, "assemble(false)") = 1

\* C2 amended: with min_iter = 1 and convergence reported at iteration 0,
\* step() performs at least one further iteration; when the model reports
\* convergence again at iteration 1 it performs exactly one (one
\* solveJacobianSystem, one updateState, one assemble) and returns success,
\* for every max_iter.
C2_MinIterForcesOneIteration ==
    (Returned /\ minIter = 1 /\ ret.convAnswers[1]) =>
        /\ ret.iteration >= 1
        /\ ret.convAnswers[2] =>
              /\ ret.outcome = "success"
              /\ ret.iteration = 1
              /\ CountCalls(ret.calls, "solveJacobianSystem") = 1
              /\ CountCalls(ret.calls, "updateState") = 1
              /\ CountCalls(ret.calls, "assemble(false)") = 1
              /\ Assemblies(ret.calls) = 2

C2_Witness ==
    /\ Returned /\ minIter = 1 /\ maxIter = 0
    /\ ret.convAnswers = <<TRUE, TRUE>>
    /\ ret.outcome = "success"
    /\ ret.iteration = 1

\* C3: the loop body is entered exactly from the states of the loop test
\* where (not converged and iteration < max_iter) or iteration < min_iter;
\* whenever the loop has exited, iteration >= min_iter and (converged or
\* iteration >= max_iter); step() fails only with iteration >= max_iter.
C3_LoopGuard ==
    [][/\ pc = "loop" =>
             (pc' = "solve" <=>
                 ((~converged /\ iteration < maxIter) \/ iteration < minIter))
       /\ pc' = "solve" => pc = "loop"
       /\ pc' = "exit" =>
             /\ iteration' >= minIter
             /\ converged' \/ iteration' >= maxIter
       /\ ret'.outcome = "failed" =>
             /\ ret'.iteration >= maxIter
             /\ ret'.iteration >= minIter
             /\ ~ret'.converged]_vars

C3_Witness ==
    /\ ret.outcome = "failed"
    /\ maxIter = 1 /\ minIter = 2
    /\ ret.iteration = 2
    /\ ret.convAnswers = <<FALSE, TRUE, FALSE>>

\* C4: step() returns -1 if and only if the last answer of getConvergence
\* at the exit of the loop is false; otherwise it returns the sum of the
\* answers of linearIterationsLastSolve of this call, which is not negative
\* (the model's counts are not negative).
C4_SentinelIffNotConverged ==
    Returned =>
        /\ ret.converged = ret.convAnswers[Len(ret.convAnswers)]
        /\ (ret.value = <<-1>>) <=> ~ret.converged
        /\ (ret.outcome = "failed") <=> ~ret.converged
        /\ ret.converged =>
              /\ ret.value = <<SumSeq(ret.linAnswers)>>
              /\ ret.value[1] >= 0

C4_Witness ==
    /\ ret.outcome = "success"
    /\ ret.linAnswers = <<1, 1>>
    /\ ret.value = <<2>>
    /\ ret.convAnswers = <<FALSE, FALSE, TRUE>>

SolveFailed ==
    /\ ret.outcome # "none"
    /\ ret.calls[Len(ret.calls)] = "solveJacobianSystem"

ChangeBelow(a, c, t) ==
    AbsInt(a.num * c.den - c.num * a.den) * t.den < t.num * AbsInt(c.den * a.num)

ChangeAbove(a, b, t) ==
    t.num * AbsInt(b.den * a.num) < AbsInt(a.num * b.den - b.num * a.den) * t.den

\* the phases p with d1 < tol < d2 at the call of iteration it
FlaggedPhases ==
    LET F0 == residual_norms_history[iteration + 1]
        F1 == residual_norms_history[iteration]
        F2 == residual_norms_history[iteration - 1]
    IN  {p \in 1 .. model_.numPhases :
            /\ ChangeBelow(F0[p], F2[p], relaxRelTol)
            /\ ChangeAbove(F0[p], F1[p], relaxRelTol)}

\* C8: called with at least three snapshots, detectNewtonOscillations flags
\* phase p exactly when d1 = |F0-F2|/F0 < tol < d2 = |F0-F1|/F0, and reports
\* the step as oscillating exactly when more than one phase is flagged; with
\* tol = 0.2 the one-phase history 1.0, 0.5, 0.9 has its phase flagged, and
\* 1.0, 0.9, 0.8 has not.
C8_OscillationDetection ==
    (pc \in {"detect", "relax"} /\ iteration >= 2) =>
        LET F0 == Snapshot(residual_norms_history, iteration)
            F1 == Snapshot(residual_norms_history, iteration - 1)
            F2 == Snapshot(residual_norms_history, iteration - 2)
            count == OscillatePhase(residual_norms_history, iteration,
                                    relaxRelTol, model_.numPhases)
        IN  /\ \A p \in 1 .. model_.numPhases :
                  PhaseOscillates(F0, F1, F2, p - 1, relaxRelTol)
                     <=> p \in FlaggedPhases
            /\ count = Cardinality(FlaggedPhases)
            /\ pc = "relax" => (isOscillate <=> Cardinality(FlaggedPhases) > 1)
            /\ (/\ relaxRelTol = Rat(1, 5)
                /\ <<F2, F1, F0>> = <<<<One>>, <<Rat(1, 2)>>, <<Rat(9, 10)>>>>)
                  => count = 1
            /\ (/\ relaxRelTol = Rat(1, 5)
                /\ <<F2, F1, F0>> = <<<<One>>, <<Rat(9, 10)>>, <<Rat(4, 5)>>>>)
                  => count = 0

C8_Witness ==
    /\ pc = "relax"
    /\ iteration = 2
    /\ model_.numPhases = 2
    /\ relaxRelTol = Rat(1, 5)
    /\ residual_norms_history =
          <<<<One, One>>, <<Rat(1, 2), Rat(1, 2)>>, <<Rat(9, 10), Rat(9, 10)>>>>
    /\ isOscillate

\* C9: in the first two iterations of a step the detection is inactive:
\* called with iteration < 2 it leaves oscillate and stagnate false, and the
\* relaxation factor is 1.0 when the updates of iterations 0 and 1 are
\* relaxed and applied.
C9_InactiveInFirstTwoIterations ==
    (pc \in {"relax", "update"} /\ iteration < 2) =>
        /\ ~isOscillate
        /\ ~isStagnate
        /\ omega = One

C9_Witness ==
    /\ pc = "update"
    /\ iteration = 1
    /\ residual_norms_history = <<<<One, One>>, <<One, One>>>>
    /\ omega = One

\* x <= y on finite fractions
AtMost(x, y) == x.num * y.den <= y.num * x.den

\* C10: within one step() omega starts at 1.0, changes only in an iteration
\* where oscillation is detected, and is then max(omega - relax_increment,
\* relax_max); so for relax_increment >= 0 and relax_max <= 1 it never
\* increases and stays within [relax_max, 1.0]; the next step starts at 1.0
\* again.
C10_RelaxationFactor ==
    [][/\ (pc = "idle" /\ pc' = "loop") => omega' = One
       /\ (pc # "idle" /\ pc' # "idle" /\ omega' # omega) =>
             /\ pc = "detect"
             /\ isOscillate'
       /\ (pc = "detect" /\ pc' = "relax" /\ isOscillate') =>
             omega' = RatMax(RatSub(omega, relaxIncrement), relaxMax)
       /\ (/\ pc # "idle" /\ pc' # "idle"
           /\ AtMost(Zero, relaxIncrement) /\ AtMost(relaxMax, One)) =>
             /\ AtMost(omega', omega)
             /\ AtMost(relaxMax, omega')
             /\ AtMost(omega', One)]_vars

C10_Witness ==
    /\ steps = 2
    /\ relaxIncrement = Rat(2, 5) /\ relaxMax = Rat(1, 2)
    /\ pc = "update"
    /\ iteration = 3
    /\ omega = Rat(1, 2)
    /\ isOscillate

\* ------------------------------------------------------------------------
\* Properties of ImpesTPFAAD::solve
\* ------------------------------------------------------------------------
\* C7: when the linear solver reports non-convergence, solve() throws after
\* exactly one call of the linear solver, and the pressure of the reservoir
\* state is as it was before the call.
C7_ImpesSolveFailureIsFatal ==
    /\ impesRet.outcome # "none" =>
          /\ Len(linsolves) = impesRet.solves + 1
          /\ (impesRet.outcome = "thrown")
                <=> ~linsolves[Len(linsolves)].converged
    /\ impesRet.outcome = "thrown" => state_pressure = impesRet.pressure

C7_Witness ==
    /\ impesRet.outcome = "thrown"
    /\ Len(linsolves) = 2
    /\ linsolves[1].converged
    /\ linsolves[2].dp = [c \in ImpesCells |-> Rat(1, 2)]
    /\ state_pressure # [c \in ImpesCells |-> state_pressure[1]]


\* ------------------------------------------------------------------------
\* Properties of stabilizeNewton and of the parameters
\* ------------------------------------------------------------------------
\* every component divided by two
Halved(v) == [i \in DOMAIN v |-> RatDiv(v[i], Rat(2, 1))]

\* C11 as stated: a call of stabilizeNewton with DAMPEN halves every
\* component of dx when omega is 0.5, and changes neither dx nor dxOld when
\* omega is 1.0
C11_AsStated ==
    [][(pc = "relax" /\ relaxType = DAMPEN)
          => /\ omega = Rat(1, 2) => dx' = Halved(dx)
             /\ omega = One => (dx' = dx /\ dxOld' = dxOld)]_vars

\* C11: a call of stabilizeNewton with DAMPEN halves every component of dx
\* when omega is 0.5 and leaves dx as it is when omega is 1.0; in both cases
\* dxOld becomes the update that was passed in
C11_DampenScalesAndStores ==
    [][(pc = "relax" /\ relaxType = DAMPEN)
          => /\ omega = Rat(1, 2) => dx' = Halved(dx)
             /\ omega = One => dx' = dx
             /\ dxOld' = dx]_vars

\* a DAMPEN call with omega 1.0 has returned: dx is the update the model
\* gave, and dxOld, which held a different vector, now holds it too
C11_Witness ==
    /\ pc = "update"
    /\ relaxType = DAMPEN
    /\ omega = One
    /\ iteration = 2
    /\ updAnswers[3] # updAnswers[2]
    /\ dx = updAnswers[3]
    /\ dxOld = updAnswers[3]


\* the update direction the model produced in the previous iteration of the
\* running step, the zero vector in the first iteration
PreviousDirection ==
    IF iteration = 0 THEN [i \in 1 .. model_.sizeNonLinear |-> Rat(0, 1)]
    ELSE updAnswers[iteration]

\* C12: with SOR, the update handed on by stabilizeNewton in iteration k is
\* omega * dx + (1 - omega) * dxPrev, dx being what solveJacobianSystem
\* returned in iteration k and dxPrev what it returned in iteration k - 1
\* (zero in the first iteration); with omega = 0.5 it is their average
C12_SorBlendsWithPreviousDirection ==
    (pc = "update" /\ relaxType = SOR)
       => \A i \in 1 .. model_.sizeNonLinear :
             LET new == updAnswers[iteration + 1][i]
                 prev == PreviousDirection[i]
             IN  /\ dx[i] = RatAdd(RatMul(omega, new),
                                   RatMul(RatSub(Rat(1, 1), omega), prev))
                 /\ omega = Rat(1, 2)
                       => dx[i] = RatDiv(RatAdd(new, prev), Rat(2, 1))

\* in iteration 3 SOR has blended with omega = 0.5, and the update of the
\* iteration before had itself been relaxed
C12_Witness ==
    /\ pc = "update"
    /\ relaxType = SOR
    /\ iteration = 3
    /\ omega = Rat(1, 2)
    /\ applied[3] # updAnswers[3]
    /\ updAnswers[4] # updAnswers[3]
    /\ dx = <<Rat(1, 1), Rat(1, 2)>>


\* C13: the constructor of SolverParameters throws when the group's
\* relax_type is neither "dampen" nor "sor", and a call of stabilizeNewton
\* with a relaxation type other than DAMPEN and SOR ends step() with an
\* exception, the update being neither relaxed nor applied
C13_UnsupportedRelaxationThrows ==
    [][/\ (/\ pc = "construct"
           /\ "relax_type" \in param.has
           /\ param.relax_type \notin {"dampen", "sor"})
          => pc' = "unconstructed"
       /\ (pc = "relax" /\ relaxType \notin {DAMPEN, SOR})
          => /\ pc' = "idle"
             /\ ret'.outcome = "exception"
             /\ ret'.applied = applied
             /\ ret'.calls = calls]_vars

\* step() has ended with an exception in the third call of stabilizeNewton,
\* the relaxation type being neither DAMPEN nor SOR
C13_Witness ==
    /\ pc = "idle"
    /\ relaxType = NoRelaxType
    /\ ret.outcome = "exception"
    /\ Len(ret.updAnswers) = 3
    /\ Len(ret.applied) = 2


\* ------------------------------------------------------------------------
\* Properties of ImpesTPFAAD::solve and of the fluid data
\* ------------------------------------------------------------------------
\* the last call of linsolver_.solve
LastSolve == linsolves[Len(linsolves)]

\* C14: a call of solve() that returns has called the linear solver exactly
\* once, with the Jacobian block of the cell residual with respect to the
\* cell pressures (cells x cells) as matrix and the value of the residual as
\* right-hand side, and has stored p_old[c] - dp[c] as pressure of every
\* cell c
C14_OneSolveThenPressureUpdate ==
    impesRet.outcome = "returned"
       => /\ Len(linsolves) = impesRet.solves + 1
          /\ LastSolve.converged
          /\ LastSolve.matr = cell_residual_.derivative[1]
          /\ Len(LastSolve.matr) = Len(state_pressure)
          /\ \A c \in DOMAIN state_pressure :
                Len(LastSolve.matr[c]) = Len(state_pressure)
          /\ LastSolve.rhs = cell_residual_.value
          /\ DOMAIN state_pressure = DOMAIN impesRet.pressure
          /\ \A c \in DOMAIN state_pressure :
                state_pressure[c] = RatSub(impesRet.pressure[c], LastSolve.dp[c])

\* the second call of solve() on a grid of two cells has returned; the
\* matrix couples the cells and only the second pressure has changed
C14_Witness ==
    /\ impesRet.outcome = "returned"
    /\ Len(linsolves) = 2
    /\ Len(state_pressure) = 2
    /\ LastSolve.matr[1][2] # Rat(0, 1)
    /\ LastSolve.dp = <<Rat(0, 1), Rat(1, 2)>>
    /\ state_pressure[1] = impesRet.pressure[1]
    /\ state_pressure[2] # impesRet.pressure[2]


\* C15: a call of solve(), whether it returns or throws, leaves the
\* bottom-hole pressures of the well state, the saturations and the surface
\* volumes as they were; a call that throws leaves the cell pressures too
C15_SolveWritesOnlyPressure ==
    [][Len(linsolves') = Len(linsolves) + 1
          => /\ well_bhp' = well_bhp
             /\ state_saturation' = state_saturation
             /\ state_surfacevol' = state_surfacevol
             /\ impesRet'.outcome \in {"returned", "thrown"}
             /\ impesRet'.outcome = "thrown" => state_pressure' = state_pressure]_vars

\* a call has returned and changed the cell pressure, and a later call has
\* thrown; the wells and the other fields of the state are what they were
\* made with
C15_Witness ==
    /\ impesRet.outcome = "thrown"
    /\ Len(linsolves) = 2
    /\ linsolves[1].converged
    /\ linsolves[1].dp = <<Rat(1, 2)>>
    /\ well_bhp = <<Rat(3, 1)>>
    /\ state_saturation = <<(<<Rat(1, 1)>>)>>
    /\ state_surfacevol = <<(<<Rat(2, 3)>>)>>


\* solve() has returned on a grid of one cell with one well and a fluid of
\* one phase; the source term q is zero in every call, and without an
\* internal face there is no flux
SingleCellCase ==
    /\ impesRet.outcome = "returned"
    /\ Len(state_pressure) = 1
    /\ Len(well_bhp) = 1
    /\ pdepfdata_.np_ = 1

\* the dp the linear solver left solves matr * dp = rhs
SolvesSystem ==
    \A r \in DOMAIN LastSolve.rhs :
       RatMul(LastSolve.matr[r][1], LastSolve.dp[1]) = LastSolve.rhs[r]

\* C16 as stated: in the single-cell case the assembled residual is zero,
\* and a solution of the linear system leaves the cell pressure unchanged
C16_AsStated ==
    SingleCellCase
       => /\ LastSolve.rhs = <<Rat(0, 1)>>
          /\ SolvesSystem => state_pressure = impesRet.pressure

\* C16: in the single-cell case, when the surface volume of the cell is the
\* one its pressure gives (z = A(p), so that B(p) * z = 1), the assembled
\* residual is zero; when moreover dA/dp is not zero, the linear system has
\* the single solution zero, which leaves the cell pressure unchanged
C16_EquilibriumKeepsPressure ==
    (SingleCellCase /\ state_surfacevol[1][1] = pdepfdata_.A_[1][1])
       => /\ LastSolve.rhs = <<Rat(0, 1)>>
          /\ (SolvesSystem /\ pdepfdata_.dA_[1][1] # Rat(0, 1))
                => /\ LastSolve.dp = <<Rat(0, 1)>>
                   /\ state_pressure = impesRet.pressure

\* a single-cell solve of a state in equilibrium with a compressible fluid
\* has returned with a zero correction
C16_Witness ==
    /\ SingleCellCase
    /\ state_surfacevol[1][1] = pdepfdata_.A_[1][1]
    /\ pdepfdata_.dA_[1][1] = Rat(1, 1)
    /\ LastSolve.matr = <<(<<Rat(2, 1)>>)>>
    /\ LastSolve.rhs = <<Rat(0, 1)>>
    /\ SolvesSystem
    /\ state_pressure = impesRet.pressure


\* C17 as stated: a call of fvf, phaseRelPerm or phaseViscosity with a phase
\* index outside 0 .. numPhases - 1 aborts and hands back no value
C17_AsStated ==
    (/\ fluidCall.op # "none"
     /\ (fluidCall.phase < 0 \/ fluidCall.phase >= pdepfdata_.np_))
       => fluidCall.outcome = "aborted"


\* ------------------------------------------------------------------------
\* Order of the calls, the history, and what the outcome depends on
\* ------------------------------------------------------------------------
\* the calls of the model in the set-up of a step, and in one iteration
SetUpCalls ==
    <<"prepareStep", "assemble(true)", "computeResidualNorms", "getConvergence">>

IterationCalls ==
    <<"solveJacobianSystem", "linearIterationsLastSolve", "updateState",
      "assemble(false)", "computeResidualNorms", "getConvergence">>

\* the calls of a step up to the end of its n-th iteration
CallsOfIterations(n) ==
    SetUpCalls \o [i \in 1 .. 6 * n |-> IterationCalls[((i - 1) % 6) + 1]]

\* the calls made so far are the fixed sequence, up to where step() stands
CallsInOrder ==
    /\ pc = "loop" \/ pc = "solve" \/ pc = "exit"
          => calls = CallsOfIterations(iteration)
    /\ pc = "detect" \/ pc = "relax" \/ pc = "update"
          => calls = CallsOfIterations(iteration)
                        \o <<"solveJacobianSystem", "linearIterationsLastSolve">>
    /\ pc # "idle" => Len(convAnswers) = iteration + 1
    /\ (pc = "idle" /\ ret.outcome = "success")
          => ret.calls = CallsOfIterations(ret.iteration) \o <<"afterStep">>
    /\ (pc = "idle" /\ ret.outcome = "failed")
          => ret.calls = CallsOfIterations(ret.iteration)
    /\ (pc = "idle" /\ ret.outcome = "exception")
          => ret.calls = CallsOfIterations(ret.iteration)
                            \o <<"solveJacobianSystem">>

\* C18: the calls of the model in one step() are prepareStep, assemble(true),
\* computeResidualNorms, getConvergence, and then per iteration
\* solveJacobianSystem, (the detection of oscillations, the relaxation,)
\* updateState, assemble(false), computeResidualNorms, getConvergence, the
\* iteration count being increased before that getConvergence; nothing is
\* called twice in a row or out of this order, and prepareStep once
C18_FixedOrderOfCalls ==
    [][/\ CallsInOrder'
       /\ pc = "idle" => pc' = "loop" /\ iteration' = 0
       /\ pc = "loop" => pc' \in {"solve", "exit"} /\ calls' = calls
       /\ pc = "solve" => pc' \in {"detect", "idle"}
       /\ pc = "detect" => pc' = "relax" /\ calls' = calls
       /\ pc = "relax" => pc' = "update" /\ calls' = calls
       /\ pc = "update" => pc' = "loop" /\ iteration' = iteration + 1
       /\ pc = "exit" => pc' = "idle"]_vars

\* a step of two iterations has returned
C18_Witness ==
    /\ pc = "idle"
    /\ ret.outcome = "success"
    /\ ret.iteration = 2
    /\ Len(ret.calls) = 17
    /\ CountCalls(ret.calls, "prepareStep") = 1
    /\ CountCalls(ret.calls, "assemble(true)") = 1
    /\ CountCalls(ret.calls, "assemble(false)") = 2


\* the indexes of residual_history the detector reads when called in
\* iteration it: none before the third iteration
DetectorReads(it) == IF it < 2 THEN {} ELSE {it, it - 1, it - 2}

\* C19: a step starts with an empty history and stores one snapshot with
\* every assembly; the history never shrinks while the step runs; whenever
\* step() stands in its loop, and so at every call of
\* detectNewtonOscillations, the history has iteration + 1 entries, and the
\* entries the detector reads exist
C19_HistoryLength ==
    [][/\ pc = "idle" => residual_norms_history = <<>>
       /\ pc' # "idle"
             => /\ Len(residual_norms_history') = iteration' + 1
                /\ Len(residual_norms_history') = Assemblies(calls')
                /\ Len(residual_norms_history') >= Len(residual_norms_history)
                /\ Len(residual_norms_history') - Len(residual_norms_history)
                      = IF pc \in {"idle", "update"} THEN 1 ELSE 0
       /\ pc' = "detect"
             => DetectorReads(iteration')
                   \subseteq 0 .. Len(residual_norms_history') - 1]_vars

\* the detector is called in the fourth iteration with four snapshots
C19_Witness ==
    /\ pc = "detect"
    /\ iteration = 3
    /\ Len(residual_norms_history) = 4
    /\ DetectorReads(iteration) = {1, 2, 3}


\* in the snapshots of a step, more than one phase has in iteration k come
\* back to its norm of iteration k - 2 after having left it in iteration k - 1
OscillatedAt(history, k) ==
    /\ k >= 2
    /\ Cardinality({p \in 1 .. model_.numPhases :
                       /\ ChangeBelow(history[k + 1][p], history[k - 1][p],
                                      relaxRelTol)
                       /\ ChangeAbove(history[k + 1][p], history[k][p],
                                      relaxRelTol)}) > 1

\* the relaxation factor of iteration k, from the snapshots alone
RECURSIVE OmegaOf(_, _)
OmegaOf(history, k) ==
    LET before == IF k = 0 THEN Rat(1, 1) ELSE OmegaOf(history, k - 1)
        lowered == RatSub(before, relaxIncrement)
    IN  IF OscillatedAt(history, k)
        THEN IF AtMost(relaxMax, lowered) THEN lowered ELSE relaxMax
        ELSE before

\* the update applied in iteration k, from the snapshots and the updates the
\* model returned
AppliedOf(history, updates, k) ==
    LET w == OmegaOf(history, k)
        new == updates[k + 1]
        prev == IF k = 0 THEN [i \in DOMAIN new |-> Rat(0, 1)] ELSE updates[k]
    IN  [i \in DOMAIN new |->
            IF relaxType = SOR
            THEN RatAdd(RatMul(w, new[i]), RatMul(RatSub(Rat(1, 1), w), prev[i]))
            ELSE RatMul(w, new[i])]

\* the loop goes on after the k-th answer of getConvergence
ContinuesAfter(answers, k) ==
    (~answers[k + 1] /\ k < maxIter) \/ minIter > k

\* C20: what a call of step() does is a function of the parameters and of
\* the answers of the model (snapshots, convergence answers, updates, linear
\* iteration counts, a failing solve) alone: the number of iterations, the
\* calls, the relaxation factors, the applied updates, the counters and the
\* returned value are given by expressions in which neither
\* terminalOutputEnabled() nor the stagnation flag occurs, so two runs that
\* differ in these only do the same
C20_OutcomeIsFunctionOfAnswers ==
    (pc = "idle" /\ ret.outcome \in {"success", "failed", "exception"})
       => LET n == ret.iteration
              done == ret.outcome # "exception"
              success == done /\ ret.convAnswers[n + 1]
          IN  /\ Len(ret.convAnswers) = n + 1
              /\ Len(ret.history) = n + 1
              /\ Len(ret.updAnswers) = n
              /\ Len(ret.linAnswers) = n
              /\ \A k \in 0 .. n - 1 : ContinuesAfter(ret.convAnswers, k)
              /\ done <=> ~ContinuesAfter(ret.convAnswers, n)
              /\ ret.omega = IF n = 0 THEN Rat(1, 1) ELSE OmegaOf(ret.history, n - 1)
              /\ ret.applied =
                    [k \in 1 .. n |-> AppliedOf(ret.history, ret.updAnswers, k - 1)]
              /\ ret.calls = CallsOfIterations(n)
                                \o (IF ~done THEN <<"solveJacobianSystem">>
                                    ELSE IF success THEN <<"afterStep">>
                                    ELSE <<>>)
              /\ ret.outcome = "success" <=> success
              /\ ret.value = IF ~done THEN <<>>
                             ELSE IF success THEN <<SumSeq(ret.linAnswers)>>
                             ELSE <<-1>>
              /\ newtonIterations_ = entry.newton + (IF success THEN n ELSE 0)
              /\ linearIterations_
                    = entry.linear + (IF success THEN SumSeq(ret.linAnswers) ELSE 0)

\* a step with terminal output has stagnated in its third iteration, has
\* reported an oscillation in its fourth and then its failure
C20_Witness ==
    /\ pc = "idle"
    /\ model_.terminalOutputEnabled
    /\ ret.outcome = "failed"
    /\ ret.iteration = 4
    /\ Len(terminal) = 2
    /\ terminal[1].stream = "cout"
    /\ terminal[2].stream = "cerr"
    /\ ret.omega = Rat(1, 2)
    /\ ret.history[1] = ret.history[2]
    /\ ret.history[4] = ret.history[2]
    /\ ret.history[3] # ret.history[2]


\* the wells whose range of perforations holds the perforation perf:
\* well_connpos[w] <= perf < well_connpos[w+1]
OwnersOf(wells, perf) ==
    {w \in 0 .. wells.number_of_wells - 1 :
        /\ wells.well_connpos[w + 1] <= perf
        /\ perf < wells.well_connpos[w + 2]}

\* the columns of a matrix row that hold a nonzero
NonZeros(row) == {c \in DOMAIN row : row[c] # Zero}

\* C21: when well_connpos does not decrease and starts at 0, the
\* well-to-perforation matrix that assemble() has built has one row per
\* perforation and one column per well, every row holds exactly one
\* nonzero, the value 1 in the column of the one well that owns the
\* perforation, and the well pressure of the perforation is the bottom-hole
\* pressure of that well
C21_OneWellPerPerforation ==
    (/\ impesRet.outcome # "none"
     /\ wells_.well_connpos[1] = 0
     /\ \A w \in 1 .. wells_.number_of_wells :
           wells_.well_connpos[w] <= wells_.well_connpos[w + 1])
    => /\ Len(well_to_perf) = wells_.well_connpos[wells_.number_of_wells + 1]
       /\ Len(p_perfwell) = Len(well_to_perf)
       /\ \A r \in DOMAIN well_to_perf :
             /\ Len(well_to_perf[r]) = wells_.number_of_wells
             /\ Cardinality(OwnersOf(wells_, r - 1)) = 1
             /\ NonZeros(well_to_perf[r])
                   = {w + 1 : w \in OwnersOf(wells_, r - 1)}
             /\ \A c \in NonZeros(well_to_perf[r]) :
                   /\ well_to_perf[r][c] = One
                   /\ p_perfwell[r] = well_bhp[c]

\* solve() has returned for two wells with different bottom-hole pressures,
\* the first with one perforation and the second with two
C21_Witness ==
    /\ impesRet.outcome = "returned"
    /\ wells_ = [number_of_wells |-> 2, well_connpos |-> <<0, 1, 3>>]
    /\ well_bhp = <<Rat(3, 1), Rat(4, 1)>>
    /\ well_to_perf = <<<<One, Zero>>, <<Zero, One>>, <<Zero, One>>>>
    /\ p_perfwell = <<Rat(3, 1), Rat(4, 1), Rat(4, 1)>>

\* the four counters of the NewtonSolver
Counters ==
    [newton     |-> newtonIterations_,
     linear     |-> linearIterations_,
     newtonLast |-> newtonIterationsLast_,
     linearLast |-> linearIterationsLast_]

\* step() returns the failure sentinel in this transition
ReturnsSentinel ==
    /\ pc = "exit"
    /\ pc' = "idle"
    /\ ret'.value = <<FailureSentinel>>

AppliedAsSolved(solved, handed) ==
    /\ Len(handed) <= Len(solved)
    /\ \A k \in DOMAIN handed : handed[k] = solved[k]

\* C23: on a model of fewer than two phases the detection never reports an
\* oscillation, whatever the residual norms are: omega is 1 during the whole
\* step and at its end, no relaxation is announced, and every update goes
\* to updateState as the linear solve returned it, with DAMPEN and with SOR
C23_FewPhasesNeverRelax ==
    model_.numPhases < 2 =>
       /\ ~isOscillate
       /\ omega = One
       /\ terminal = <<>> \/ terminal[1].stream = "cerr"
       /\ AppliedAsSolved(updAnswers, applied)
       /\ pc = "update" => dx = updAnswers[Len(updAnswers)]
       /\ ret.outcome # "none" =>
             /\ ret.omega = One
             /\ AppliedAsSolved(ret.updAnswers, ret.applied)

\* the single phase changes by half and comes back, which its own test
\* rates as oscillating
SinglePhaseSwings(history) ==
    /\ Len(history) >= 3
    /\ PhaseOscillates(history[3], history[2], history[1], 0, relaxRelTol)

\* a SOR step on a one-phase model has failed after four iterations whose
\* residual norm swung between the two levels, with updates that differ
C23_Witness ==
    /\ pc = "idle"
    /\ model_.numPhases = 1
    /\ relaxType = SOR
    /\ ret.outcome = "failed"
    /\ ret.iteration = 4
    /\ SinglePhaseSwings(ret.history)
    /\ ret.updAnswers[1] # ret.updAnswers[2]
    /\ ret.applied = ret.updAnswers
    /\ ret.omega = One

\* C24 as stated: a call of step() that has returned has performed at most
\* max(max_iter, min_iter) iterations.
C24_AsStated ==
    ret.outcome \in {"success", "failed"} =>
       ret.iteration <= MaxOf(maxIter, minIter)

\* C24 amended: when every call of the model returns, a call of step()
\* returns, with success or with the failure sentinel, whatever the answers
\* of getConvergence are, and the loop never performs more than
\* max(max_iter, min_iter, 0) iterations.
C24_StepTerminates ==
    /\ [](/\ iteration <= MaxOf(MaxOf(maxIter, minIter), 0)
          /\ Len(applied) = iteration
          /\ ret.outcome \in {"none", "success", "failed"}
          /\ ret.outcome # "none" =>
                /\ ret.iteration <= MaxOf(MaxOf(maxIter, minIter), 0)
                /\ Len(ret.applied) = ret.iteration)
    /\ (pc # "idle") ~> (pc = "idle" /\ ret.outcome \in {"success", "failed"})

\* a step with max_iter = 1 and min_iter = 2 has returned the sentinel after
\* two iterations, the model having reported convergence only at the first
\* of its three answers
C24_Witness ==
    /\ pc = "idle"
    /\ maxIter = 1
    /\ minIter = 2
    /\ ret.outcome = "failed"
    /\ ret.value = <<FailureSentinel>>
    /\ ret.iteration = 2
    /\ ret.convAnswers = <<TRUE, FALSE, FALSE>>

=============================================================================
